---- MODULE Spec2Model ----
(***************************************************************************)
(* A model of coupongo: the configuration store (config.Manager), the API  *)
(* key validator, the Stripe client wrapper, coupon creation and the batch *)
(* creation of promotion codes.                                            *)
(*                                                                         *)
(* Strings that the code inspects character by character (API keys,        *)
(* promotion codes) are sequences of one-character strings; names,         *)
(* currencies and formats, which the code only compares, are strings.      *)
(***************************************************************************)
EXTENDS Integers, Sequences, FiniteSets, TLC

VARIABLES
    cfg,        \* Manager.config: [loaded, current, envs]
    file,       \* the config file: [kind, cur, hasEnvs, envs]
    ret,        \* what the last operation returned: [op, arg, res, err]
    sc,         \* Client.sc: the key the SDK client is bound to, or NoKey
    stripeKey,  \* the SDK's global stripe.Key
    calls,      \* the remote requests issued by the current operation
    batch,      \* BatchCreatePromotionCodes' frame: [pc, opts, i, codes, errors]
    cmd,        \* the promo batch command: [state, warned, created, shown]
    inv         \* the CLI invocation: [pc, parent, name, arg, envFlag, formatFlag,
                \* targetEnv, trace, prompted, format]; or the invocations
                \* racing on the config file, each with its own Manager:
                \* [pc, cfg, loadedAt, savedAt]

vars == <<cfg, file, ret, sc, stripeKey, calls, batch, cmd, inv>>

----------------------------------------------------------------------------
(* Bounds of the model *)

\* the longest API key the validator is tried on
MaxKeyLen == 21
\* the largest valid batch count tried
MaxCount == 6

----------------------------------------------------------------------------
(* Errors: a message, and the sentinel error it wraps ("" for none) *)

Err(wraps, msg) == [wraps |-> wraps, msg |-> msg, detail |-> << >>]
NoError == Err("", "")

ErrEnvironmentNotFound == "environment not found"
ErrInvalidAPIKey == "invalid API key format"

ErrConfigNotLoaded == Err("", "config not loaded")
ErrNotFound == Err(ErrEnvironmentNotFound, "environment not found")

\* errors.Is(err, sentinel)
ErrorsIs(err, sentinel) == err.wraps = sentinel

----------------------------------------------------------------------------
(* API keys *)

\* n copies of the character c
Repeat(c, n) == [i \in 1..n |-> c]

\* a key that starts with prefix and has n characters (the prefix alone
\* when it is longer than n)
PadKey(prefix, n) ==
    IF n <= Len(prefix) THEN prefix ELSE prefix \o Repeat("x", n - Len(prefix))

\* strings.HasPrefix
HasPrefix(s, p) == Len(s) >= Len(p) /\ SubSeq(s, 1, Len(p)) = p

MinKeyLen == 20

validateAPIKey_NoLengthCheck(apiKey) ==
    IF apiKey = << >> THEN Err("", "API key cannot be empty")
    ELSE IF ~HasPrefix(apiKey, <<"s", "k", "_">>) /\ ~HasPrefix(apiKey, <<"r", "k", "_">>)
         THEN Err(ErrInvalidAPIKey, "key must start with 'sk_' or 'rk_'")
    ELSE NoError

validateAPIKey(apiKey) ==
    IF apiKey = << >> THEN Err("", "API key cannot be empty")
    ELSE IF ~HasPrefix(apiKey, <<"s", "k", "_">>) /\ ~HasPrefix(apiKey, <<"r", "k", "_">>)
         THEN Err(ErrInvalidAPIKey, "key must start with 'sk_' or 'rk_'")
    ELSE IF Len(apiKey) < MinKeyLen THEN Err(ErrInvalidAPIKey, "key too short")
    ELSE NoError

NoKey == << >>
SkKey == PadKey(<<"s", "k", "_">>, MinKeyLen)
RkKey == PadKey(<<"r", "k", "_">>, MinKeyLen + 1)
ShortKey == PadKey(<<"s", "k", "_">>, MinKeyLen - 1)
PkKey == PadKey(<<"p", "k", "_">>, MinKeyLen)

----------------------------------------------------------------------------
(* The configuration store *)

Environment(key, currency, format) ==
    [StripeAPIKey |-> key, DefaultCurrency |-> currency, OutputFormat |-> format]

NoEnvs == << >>

\* types.DefaultConfig
DefaultConfig ==
    [loaded |-> TRUE, current |-> "test",
     envs |-> [n \in {"test"} |-> Environment(NoKey, "usd", "table")]]

\* a Manager before Load: m.config is nil
NilConfig == [loaded |-> FALSE, current |-> "", envs |-> NoEnvs]

\* 0600: read/write for the owner only
ConfigFileMode == 384
\* 0644, a mode a file made by hand may have
WorldReadable == 6 * 64 + 4 * 8 + 4

\* the config file: absent, unparsable, or a JSON document; mode is its
\* permission bits
AbsentFile ==
    [kind |-> "absent", cur |-> "", hasEnvs |-> FALSE, envs |-> NoEnvs, mode |-> 0]
CorruptFile ==
    [kind |-> "corrupt", cur |-> "", hasEnvs |-> FALSE, envs |-> NoEnvs,
     mode |-> ConfigFileMode]
JsonFile(cur, hasEnvs, envs, mode) ==
    [kind |-> "json", cur |-> cur, hasEnvs |-> hasEnvs, envs |-> envs, mode |-> mode]

\* json.MarshalIndent of the Config: the document Save writes (a nil
\* Config marshals to null, which has no fields)
Marshal(c) ==
    IF c.loaded THEN [cur |-> c.current, hasEnvs |-> TRUE, envs |-> c.envs]
    ELSE [cur |-> "", hasEnvs |-> FALSE, envs |-> NoEnvs]

\* os.WriteFile(path, data, perm): the content is replaced; perm is used
\* only when the file is created
WriteFile(f, data, perm) ==
    JsonFile(data.cur, data.hasEnvs, data.envs,
             IF f.kind = "absent" THEN perm ELSE f.mode)

\* Manager.Save: the file after m.config is saved (the write itself is
\* taken to succeed)
Save(c, f) == WriteFile(f, Marshal(c), ConfigFileMode)

\* json.Unmarshal into a types.Config, then Load's defaults
Unmarshal(f) ==
    [loaded |-> TRUE,
     current |-> IF f.cur = "" THEN "test" ELSE f.cur,
     envs |-> IF f.hasEnvs THEN f.envs ELSE NoEnvs]

\* the environment names and values the operations are called with
Names == {"", "test", "prod", "dev"}
KeyInputs == {NoKey, RkKey, ShortKey, PkKey}
EnvInputs ==
    {Environment(NoKey, "", ""), Environment(SkKey, "eur", "json"),
     Environment(ShortKey, "eur", ""), Environment(PkKey, "", "json")}

\* the config files a run may find when it starts: none, one that does not
\* parse, documents written by hand (fields missing or empty, an
\* environment with the empty name, another mode) and one the program wrote
InitialFiles ==
    {AbsentFile, CorruptFile,
     JsonFile("", FALSE, NoEnvs, ConfigFileMode),
     JsonFile("prod", TRUE, NoEnvs, ConfigFileMode),
     JsonFile("", TRUE, [n \in {"prod"} |-> Environment(SkKey, "", "")],
              WorldReadable),
     JsonFile("prod", TRUE,
              [n \in {"test", "prod"} |->
                  IF n = "test" THEN Environment(NoKey, "usd", "table")
                  ELSE Environment(RkKey, "eur", "json")],
              ConfigFileMode),
     JsonFile("prod", TRUE,
              [n \in {"", "prod"} |->
                  IF n = "" THEN Environment(SkKey, "usd", "table")
                  ELSE Environment(NoKey, "eur", "json")],
              ConfigFileMode)}

Return(op, arg, res, err) == [op |-> op, arg |-> arg, res |-> res, err |-> err]

\* the frames of the batch call and of the promo batch command when neither
\* is running
IdleBatch == [pc |-> "idle", opts |-> << >>, i |-> 0, codes |-> << >>, errors |-> << >>]
IdleCmd == [state |-> "idle", warned |-> FALSE, created |-> 0, shown |-> << >>]

\* no invocations race: one process at a time uses the file
NoInvocations == << >>

\* the calls of the Stripe services
ServiceOps ==
    {"TestConnection", "ListCoupons", "GetCoupon", "CreateCoupon", "UpdateCoupon",
     "DeleteCoupon", "ListPromotionCodes", "GetPromotionCode", "CreatePromotionCode",
     "UpdatePromotionCode", "BatchCreatePromotionCodes", "promptBatchCreateOptions"}

\* no service call, batch or batch command has been started: the program is
\* single-threaded, and a process sets up its Manager and Client, runs one
\* command and ends
Idle == batch.pc = "idle" /\ cmd.state = "idle" /\ ret.op \notin ServiceOps

----------------------------------------------------------------------------
(* Manager's operations.  Each starts when no other operation is running,
   issues no remote request and leaves the client alone. *)

StoreFrame ==
    /\ Idle
    /\ calls' = << >>
    /\ batch' = IdleBatch
    /\ cmd' = IdleCmd
    /\ UNCHANGED <<sc, stripeKey, inv>>

Load_SavesAfterParse ==
    /\ IF file.kind = "absent"
       THEN /\ cfg' = DefaultConfig
            /\ file' = Save(DefaultConfig, file)
            /\ ret' = Return("Load", "", << >>, NoError)
       ELSE IF file.kind = "corrupt"
       THEN /\ ret' = Return("Load", "", << >>, Err("", "failed to parse config file"))
            /\ UNCHANGED <<cfg, file>>
       ELSE /\ cfg' = Unmarshal(file)
            /\ ret' = Return("Load", "", << >>, NoError)
            /\ file' = Save(cfg', file)
    /\ StoreFrame

\* Manager.Load
Load ==
    /\ IF file.kind = "absent"
       THEN /\ cfg' = DefaultConfig
            /\ file' = Save(DefaultConfig, file)
            /\ ret' = Return("Load", "", << >>, NoError)
       ELSE IF file.kind = "corrupt"
       THEN /\ ret' = Return("Load", "", << >>, Err("", "failed to parse config file"))
            /\ UNCHANGED <<cfg, file>>
       ELSE /\ cfg' = Unmarshal(file)
            /\ ret' = Return("Load", "", << >>, NoError)
            /\ UNCHANGED file
    /\ StoreFrame

\* Manager.GetEnvironment: the (result, error) pair it returns
GetEnvironmentOf(c, name) ==
    IF ~c.loaded THEN <<<< >>, ErrConfigNotLoaded>>
    ELSE IF name \notin DOMAIN c.envs THEN <<<< >>, ErrNotFound>>
    ELSE <<<<c.envs[name]>>, NoError>>

\* Manager.GetCurrentEnvironment
GetCurrentEnvironmentName(c) == IF ~c.loaded THEN "test" ELSE c.current

GetEnvironment(name) ==
    /\ ret' = Return("GetEnvironment", name,
                     GetEnvironmentOf(cfg, name)[1], GetEnvironmentOf(cfg, name)[2])
    /\ UNCHANGED <<cfg, file>>
    /\ StoreFrame

\* Manager.GetCurrentEnvironmentConfig
GetCurrentEnvironmentConfig ==
    /\ LET r == GetEnvironmentOf(cfg, GetCurrentEnvironmentName(cfg))
       IN ret' = Return("GetCurrentEnvironmentConfig", "", r[1], r[2])
    /\ UNCHANGED <<cfg, file>>
    /\ StoreFrame

SetCurrentEnvironment_NoSave(name) ==
    /\ IF ~cfg.loaded
       THEN /\ ret' = Return("SetCurrentEnvironment", name, << >>, ErrConfigNotLoaded)
            /\ UNCHANGED <<cfg, file>>
       ELSE IF name \notin DOMAIN cfg.envs
       THEN /\ ret' = Return("SetCurrentEnvironment", name, << >>, ErrNotFound)
            /\ UNCHANGED <<cfg, file>>
       ELSE /\ cfg' = [cfg EXCEPT !.current = name]
            /\ file' = file
            /\ ret' = Return("SetCurrentEnvironment", name, << >>, NoError)
    /\ StoreFrame

SetCurrentEnvironment_NoExistsCheck(name) ==
    /\ IF ~cfg.loaded
       THEN /\ ret' = Return("SetCurrentEnvironment", name, << >>, ErrConfigNotLoaded)
            /\ UNCHANGED <<cfg, file>>
       ELSE /\ cfg' = [cfg EXCEPT !.current = name]
            /\ file' = Save(cfg', file)
            /\ ret' = Return("SetCurrentEnvironment", name, << >>, NoError)
    /\ StoreFrame

\* Manager.SetCurrentEnvironment
SetCurrentEnvironment(name) ==
    /\ IF ~cfg.loaded
       THEN /\ ret' = Return("SetCurrentEnvironment", name, << >>, ErrConfigNotLoaded)
            /\ UNCHANGED <<cfg, file>>
       ELSE IF name \notin DOMAIN cfg.envs
       THEN /\ ret' = Return("SetCurrentEnvironment", name, << >>, ErrNotFound)
            /\ UNCHANGED <<cfg, file>>
       ELSE /\ cfg' = [cfg EXCEPT !.current = name]
            /\ file' = Save(cfg', file)
            /\ ret' = Return("SetCurrentEnvironment", name, << >>, NoError)
    /\ StoreFrame

\* the map m with key k set to v
MapSet(m, k, v) == [n \in DOMAIN m \cup {k} |-> IF n = k THEN v ELSE m[n]]
\* the map m without key k
MapDelete(m, k) == [n \in DOMAIN m \ {k} |-> m[n]]

\* AddEnvironment's defaults for the fields left empty
WithDefaults(env) ==
    [env EXCEPT !.DefaultCurrency = IF @ = "" THEN "usd" ELSE @,
                !.OutputFormat = IF @ = "" THEN "table" ELSE @]

AddEnvironment_NoKeyCheck(name, env) ==
    /\ IF ~cfg.loaded
       THEN /\ ret' = Return("AddEnvironment", name, << >>, ErrConfigNotLoaded)
            /\ UNCHANGED <<cfg, file>>
       ELSE IF name = ""
       THEN /\ ret' = Return("AddEnvironment", name, << >>,
                             Err("", "environment name cannot be empty"))
            /\ UNCHANGED <<cfg, file>>
       ELSE /\ cfg' = [cfg EXCEPT !.envs = MapSet(@, name, WithDefaults(env))]
            /\ file' = Save(cfg', file)
            /\ ret' = Return("AddEnvironment", name, << >>, NoError)
    /\ StoreFrame

\* Manager.AddEnvironment
AddEnvironment(name, env) ==
    /\ IF ~cfg.loaded
       THEN /\ ret' = Return("AddEnvironment", name, << >>, ErrConfigNotLoaded)
            /\ UNCHANGED <<cfg, file>>
       ELSE IF name = ""
       THEN /\ ret' = Return("AddEnvironment", name, << >>,
                             Err("", "environment name cannot be empty"))
            /\ UNCHANGED <<cfg, file>>
       ELSE IF env.StripeAPIKey # NoKey /\ validateAPIKey(env.StripeAPIKey) # NoError
       THEN /\ ret' = Return("AddEnvironment", name, << >>,
                             validateAPIKey(env.StripeAPIKey))
            /\ UNCHANGED <<cfg, file>>
       ELSE /\ cfg' = [cfg EXCEPT !.envs = MapSet(@, name, WithDefaults(env))]
            /\ file' = Save(cfg', file)
            /\ ret' = Return("AddEnvironment", name, << >>, NoError)
    /\ StoreFrame

NextCurrent_Keep(c, name) == {c.current}

\* RemoveEnvironment's range loop over the remaining map: when the removed
\* environment was current, the first name the iteration yields becomes
\* current (any remaining name; none when nothing remains)
NextCurrent(c, name) ==
    IF c.current # name \/ DOMAIN c.envs \ {name} = {} THEN {c.current}
    ELSE DOMAIN c.envs \ {name}

RemoveEnvironment_NoLastCheck(name) ==
    /\ IF ~cfg.loaded
       THEN /\ ret' = Return("RemoveEnvironment", name, << >>, ErrConfigNotLoaded)
            /\ UNCHANGED <<cfg, file>>
       ELSE IF name \notin DOMAIN cfg.envs
       THEN /\ ret' = Return("RemoveEnvironment", name, << >>, ErrNotFound)
            /\ UNCHANGED <<cfg, file>>
       ELSE /\ \E next \in NextCurrent(cfg, name) :
                 cfg' = [cfg EXCEPT !.envs = MapDelete(@, name), !.current = next]
            /\ file' = Save(cfg', file)
            /\ ret' = Return("RemoveEnvironment", name, << >>, NoError)
    /\ StoreFrame

\* Manager.RemoveEnvironment
RemoveEnvironment(name) ==
    /\ IF ~cfg.loaded
       THEN /\ ret' = Return("RemoveEnvironment", name, << >>, ErrConfigNotLoaded)
            /\ UNCHANGED <<cfg, file>>
       ELSE IF name \notin DOMAIN cfg.envs
       THEN /\ ret' = Return("RemoveEnvironment", name, << >>, ErrNotFound)
            /\ UNCHANGED <<cfg, file>>
       ELSE IF Cardinality(DOMAIN cfg.envs) = 1
       THEN /\ ret' = Return("RemoveEnvironment", name, << >>,
                             Err("", "cannot remove the last environment"))
            /\ UNCHANGED <<cfg, file>>
       ELSE /\ \E next \in NextCurrent(cfg, name) :
                 cfg' = [cfg EXCEPT !.envs = MapDelete(@, name), !.current = next]
            /\ file' = Save(cfg', file)
            /\ ret' = Return("RemoveEnvironment", name, << >>, NoError)
    /\ StoreFrame

UpdateEnvironmentAPIKey_NoValidate(envName, apiKey) ==
    /\ IF ~cfg.loaded
       THEN /\ ret' = Return("UpdateEnvironmentAPIKey", envName, << >>, ErrConfigNotLoaded)
            /\ UNCHANGED <<cfg, file>>
       ELSE IF envName \notin DOMAIN cfg.envs
       THEN /\ ret' = Return("UpdateEnvironmentAPIKey", envName, << >>, ErrNotFound)
            /\ UNCHANGED <<cfg, file>>
       ELSE /\ cfg' = [cfg EXCEPT !.envs[envName].StripeAPIKey = apiKey]
            /\ file' = Save(cfg', file)
            /\ ret' = Return("UpdateEnvironmentAPIKey", envName, << >>, NoError)
    /\ StoreFrame

\* Manager.UpdateEnvironmentAPIKey
UpdateEnvironmentAPIKey(envName, apiKey) ==
    /\ IF ~cfg.loaded
       THEN /\ ret' = Return("UpdateEnvironmentAPIKey", envName, << >>, ErrConfigNotLoaded)
            /\ UNCHANGED <<cfg, file>>
       ELSE IF envName \notin DOMAIN cfg.envs
       THEN /\ ret' = Return("UpdateEnvironmentAPIKey", envName, << >>, ErrNotFound)
            /\ UNCHANGED <<cfg, file>>
       ELSE IF validateAPIKey(apiKey) # NoError
       THEN /\ ret' = Return("UpdateEnvironmentAPIKey", envName, << >>,
                             validateAPIKey(apiKey))
            /\ UNCHANGED <<cfg, file>>
       ELSE /\ cfg' = [cfg EXCEPT !.envs[envName].StripeAPIKey = apiKey]
            /\ file' = Save(cfg', file)
            /\ ret' = Return("UpdateEnvironmentAPIKey", envName, << >>, NoError)
    /\ StoreFrame

Reset_KeepsCurrent ==
    /\ cfg' = [DefaultConfig EXCEPT !.current = IF cfg.loaded THEN cfg.current ELSE @]
    /\ file' = Save(cfg', file)
    /\ ret' = Return("Reset", "", << >>, NoError)
    /\ StoreFrame

\* Manager.Reset
Reset ==
    /\ cfg' = DefaultConfig
    /\ file' = Save(cfg', file)
    /\ ret' = Return("Reset", "", << >>, NoError)
    /\ StoreFrame

----------------------------------------------------------------------------
(* The Stripe client wrapper *)

\* Client.IsInitialized
IsInitialized == sc # NoKey

Initialize_KeyBeforeCheck(envName) ==
    /\ Idle
    /\ LET r == IF envName # "" THEN GetEnvironmentOf(cfg, envName)
                ELSE GetEnvironmentOf(cfg, GetCurrentEnvironmentName(cfg))
       IN IF r[2] # NoError
          THEN /\ ret' = Return("Initialize", envName, << >>,
                                Err(r[2].wraps, "failed to get environment config"))
               /\ UNCHANGED <<sc, stripeKey>>
          ELSE IF r[1][1].StripeAPIKey = NoKey
          THEN /\ ret' = Return("Initialize", envName, << >>,
                                Err("", "no API key found for environment"))
               /\ stripeKey' = r[1][1].StripeAPIKey
               /\ UNCHANGED sc
          ELSE /\ sc' = r[1][1].StripeAPIKey
               /\ stripeKey' = r[1][1].StripeAPIKey
               /\ ret' = Return("Initialize", envName, << >>, NoError)
    /\ calls' = << >>
    /\ batch' = IdleBatch
    /\ cmd' = IdleCmd
    /\ UNCHANGED <<cfg, file, inv>>

\* Client.Initialize
Initialize(envName) ==
    /\ Idle
    /\ LET r == IF envName # "" THEN GetEnvironmentOf(cfg, envName)
                ELSE GetEnvironmentOf(cfg, GetCurrentEnvironmentName(cfg))
       IN IF r[2] # NoError
          THEN /\ ret' = Return("Initialize", envName, << >>,
                                Err(r[2].wraps, "failed to get environment config"))
               /\ UNCHANGED <<sc, stripeKey>>
          ELSE IF r[1][1].StripeAPIKey = NoKey
          THEN /\ ret' = Return("Initialize", envName, << >>,
                                Err("", "no API key found for environment"))
               /\ UNCHANGED <<sc, stripeKey>>
          ELSE /\ sc' = r[1][1].StripeAPIKey
               /\ stripeKey' = r[1][1].StripeAPIKey
               /\ ret' = Return("Initialize", envName, << >>, NoError)
    /\ calls' = << >>
    /\ batch' = IdleBatch
    /\ cmd' = IdleCmd
    /\ UNCHANGED <<cfg, file, inv>>

\* Client.GetCurrentEnvironment
ClientGetCurrentEnvironment ==
    /\ LET r == GetEnvironmentOf(cfg, GetCurrentEnvironmentName(cfg))
       IN ret' = Return("Client.GetCurrentEnvironment", "", r[1], r[2])
    /\ UNCHANGED <<cfg, file>>
    /\ StoreFrame

----------------------------------------------------------------------------
(* The configuration store and the client on one config file *)

Init ==
    /\ cfg = NilConfig
    /\ file \in InitialFiles
    /\ ret = Return("", "", << >>, NoError)
    /\ sc = NoKey
    /\ stripeKey = NoKey
    /\ calls = << >>
    /\ batch = IdleBatch
    /\ cmd = IdleCmd
    /\ inv = NoInvocations

Next ==
    \/ Load
    \/ \E name \in Names : GetEnvironment(name)
    \/ GetCurrentEnvironmentConfig
    \/ \E name \in Names : SetCurrentEnvironment(name)
    \/ \E name \in Names, env \in EnvInputs : AddEnvironment(name, env)
    \/ \E name \in Names : RemoveEnvironment(name)
    \/ \E name \in Names, key \in KeyInputs : UpdateEnvironmentAPIKey(name, key)
    \/ Reset

Spec == Init /\ [][Next]_vars

----------------------------------------------------------------------------
(* The client on a configuration whose current environment changes *)

NextClient ==
    \/ Load
    \/ \E name \in Names : SetCurrentEnvironment(name)
    \/ \E name \in Names : Initialize(name)
    \/ ClientGetCurrentEnvironment

SpecClient == Init /\ [][NextClient]_vars

----------------------------------------------------------------------------
(* Formatting of promotion codes *)

LowerCase == <<"a", "b", "c", "d", "e", "f", "g", "h", "i", "j", "k", "l", "m",
               "n", "o", "p", "q", "r", "s", "t", "u", "v", "w", "x", "y", "z">>
UpperCase == <<"A", "B", "C", "D", "E", "F", "G", "H", "I", "J", "K", "L", "M",
               "N", "O", "P", "Q", "R", "S", "T", "U", "V", "W", "X", "Y", "Z">>
Digits == <<"0", "1", "2", "3", "4", "5", "6", "7", "8", "9">>

\* strings.ToUpper
ToUpperChar(c) ==
    IF \E i \in DOMAIN LowerCase : LowerCase[i] = c
    THEN UpperCase[CHOOSE i \in DOMAIN LowerCase : LowerCase[i] = c]
    ELSE c
ToUpper(str) == [i \in DOMAIN str |-> ToUpperChar(str[i])]

\* %d of a natural number
RECURSIVE Itoa(_)
Itoa(n) ==
    IF n < 10 THEN <<Digits[n + 1]>>
    ELSE Itoa(n \div 10) \o <<Digits[(n % 10) + 1]>>

\* %05d of a natural number
SuffixWidth == 5
Pad5(n) ==
    IF Len(Itoa(n)) >= SuffixWidth THEN Itoa(n)
    ELSE Repeat("0", SuffixWidth - Len(Itoa(n))) \o Itoa(n)

generatePromotionCode_NoIndex(prefix, index, suffix) ==
    ToUpper(IF prefix = << >> THEN <<"P", "R", "O", "M", "O">> ELSE prefix)
        \o <<"_">> \o Pad5(suffix)

\* generatePromotionCode, given the value rng.Intn(100000) yields
generatePromotionCode(prefix, index, suffix) ==
    ToUpper(IF prefix = << >> THEN <<"P", "R", "O", "M", "O">> ELSE prefix)
        \o Itoa(index) \o <<"_">> \o Pad5(suffix)

\* values rng.Intn(100000) may yield
SuffixInputs == {7, 99999}

----------------------------------------------------------------------------
(* Promotion code operations.  A pointer field is << >> when nil and <<v>>
   when it points to v. *)

ErrNotInitialized == Err("", "client not initialized")
RemoteAPIError == "stripe error"

\* the result of a service call: its value (<< >> when nil), its error and
\* the remote requests it issued
Outcome(res, err, sent) == [res |-> res, err |-> err, sent |-> sent]

PromotionCodeCreateOptions(couponID, code, customer, maxRedemptions, minimumAmount, currency, expiresAt, firstTimeTransaction, restrictions) ==
    [CouponID |-> couponID, Code |-> code, Active |-> << >>, Customer |-> customer,
     MaxRedemptions |-> maxRedemptions, MinimumAmount |-> minimumAmount,
     Currency |-> currency, ExpiresAt |-> expiresAt,
     FirstTimeTransaction |-> firstTimeTransaction, Metadata |-> << >>,
     Restrictions |-> restrictions]

RestrictionsParams_CurrencyAlways(opts) ==
    IF opts.Restrictions # << >> \/ opts.MinimumAmount # << >>
           \/ opts.FirstTimeTransaction # << >>
    THEN <<[FirstTimeTransaction |-> opts.FirstTimeTransaction,
            MinimumAmount |-> opts.MinimumAmount,
            MinimumAmountCurrency |->
                IF opts.Currency # "" THEN <<opts.Currency>> ELSE << >>]>>
    ELSE << >>

\* the restrictions block of stripe.PromotionCodeParams
RestrictionsParams(opts) ==
    IF opts.Restrictions # << >> \/ opts.MinimumAmount # << >>
           \/ opts.FirstTimeTransaction # << >>
    THEN <<[FirstTimeTransaction |-> opts.FirstTimeTransaction,
            MinimumAmount |-> opts.MinimumAmount,
            MinimumAmountCurrency |->
                IF opts.MinimumAmount # << >> /\ opts.Currency # ""
                THEN <<opts.Currency>> ELSE << >>]>>
    ELSE << >>

\* the stripe.PromotionCodeParams CreatePromotionCode builds
PromotionCodeParams(opts) ==
    [api |-> "promotioncode.New",
     Coupon |-> <<opts.CouponID>>,
     Code |-> IF opts.Code # << >> THEN <<opts.Code>> ELSE << >>,
     Active |-> opts.Active,
     Customer |-> IF opts.Customer # "" THEN <<opts.Customer>> ELSE << >>,
     MaxRedemptions |-> opts.MaxRedemptions,
     ExpiresAt |-> opts.ExpiresAt,
     Metadata |-> opts.Metadata,
     Restrictions |-> RestrictionsParams(opts)]

\* the stripe.PromotionCode the API returns for a create request
CreatedPromotionCode(params) ==
    [Code |-> IF params.Code # << >> THEN params.Code[1] ELSE <<"S", "R", "V">>,
     Coupon |-> params.Coupon[1]]

\* PromotionCodeService.CreatePromotionCode; remoteOk is whether the API
\* accepts the request
CreatePromotionCodeOf(opts, remoteOk) ==
    IF ~IsInitialized THEN Outcome(<< >>, ErrNotInitialized, << >>)
    ELSE IF opts.CouponID = "" THEN Outcome(<< >>, Err("", "coupon ID is required"), << >>)
    ELSE IF ~remoteOk
         THEN Outcome(<< >>, Err(RemoteAPIError, "failed to create promotion code"),
                      <<PromotionCodeParams(opts)>>)
    ELSE Outcome(<<CreatedPromotionCode(PromotionCodeParams(opts))>>, NoError,
                 <<PromotionCodeParams(opts)>>)

\* a service call that takes one step: it returns out
Single(op, arg, out) ==
    /\ Idle
    /\ ret' = Return(op, arg, out.res, out.err)
    /\ calls' = out.sent
    /\ batch' = IdleBatch
    /\ cmd' = IdleCmd
    /\ UNCHANGED <<cfg, file, sc, stripeKey, inv>>

\* a remote call of the SDK that returns one object or an error
Remote(api, arg, remoteOk, failure) ==
    IF ~IsInitialized THEN Outcome(<< >>, ErrNotInitialized, << >>)
    ELSE IF ~remoteOk
         THEN Outcome(<< >>, Err(RemoteAPIError, failure), <<[api |-> api, arg |-> arg]>>)
    ELSE Outcome(<<[object |-> api, of |-> arg]>>, NoError, <<[api |-> api, arg |-> arg]>>)

\* a list call of the SDK: listed is "error", "empty" or "some"
RemoteList(api, arg, listed, failure) ==
    IF ~IsInitialized THEN Outcome(<< >>, ErrNotInitialized, << >>)
    ELSE IF listed = "error"
         THEN Outcome(<< >>, Err(RemoteAPIError, failure), <<[api |-> api, arg |-> arg]>>)
    ELSE Outcome(IF listed = "empty" THEN << >> ELSE <<[object |-> api, of |-> arg]>>,
                 NoError, <<[api |-> api, arg |-> arg]>>)

ListOutcomes == {"error", "empty", "some"}
CouponIDs == {"", "coup_1"}

\* PromotionCodeService.ListPromotionCodes
ListPromotionCodes(couponID, listed) ==
    Single("ListPromotionCodes", couponID,
           RemoteList("promotioncode.List", couponID, listed,
                      "failed to list promotion codes"))

\* PromotionCodeService.GetPromotionCode
GetPromotionCode(id, remoteOk) ==
    Single("GetPromotionCode", id,
           Remote("promotioncode.Get", id, remoteOk, "failed to get promotion code"))

\* PromotionCodeService.UpdatePromotionCode
UpdatePromotionCode(id, active, remoteOk) ==
    Single("UpdatePromotionCode", id,
           Remote("promotioncode.Update", <<id, active>>, remoteOk,
                  "failed to update promotion code"))

\* the options CreatePromotionCode is called with
PromoOptsInputs ==
    {PromotionCodeCreateOptions(id, code, "", mr, ma, cur, << >>, ft, r) :
        id \in CouponIDs, code \in {<< >>, <<"V", "I", "P">>},
        mr \in {<< >>, <<5>>}, ma \in {<< >>, <<100>>}, cur \in {"", "usd"},
        ft \in {<< >>, <<TRUE>>},
        r \in {<< >>, <<[FirstTimeTransaction |-> <<TRUE>>, MinimumAmount |-> << >>,
                         Currency |-> ""]>>}}

\* PromotionCodeService.CreatePromotionCode, called on its own
CreatePromotionCode(opts, remoteOk) ==
    Single("CreatePromotionCode", opts, CreatePromotionCodeOf(opts, remoteOk))

\* Client.TestConnection
TestConnection(remoteOk) ==
    Single("TestConnection", "",
           [Remote("customer.List", "", remoteOk, "connection test failed")
               EXCEPT !.res = << >>])

----------------------------------------------------------------------------
(* Coupon operations *)

CouponCreateOptions(percentOff, amountOff, currency, duration, durationInMonths, rest) ==
    [ID |-> rest.ID, Name |-> rest.Name, PercentOff |-> percentOff,
     AmountOff |-> amountOff, Currency |-> currency, Duration |-> duration,
     DurationInMonths |-> durationInMonths, MaxRedemptions |-> rest.MaxRedemptions,
     RedeemBy |-> rest.RedeemBy, AppliesTo |-> rest.AppliesTo,
     CurrencyOptions |-> rest.CurrencyOptions, Metadata |-> rest.Metadata]

\* the fields of CouponCreateOptions that CreateCoupon does not validate:
\* all unset, or all set
CouponRestInputs ==
    {[ID |-> "", Name |-> "", MaxRedemptions |-> << >>, RedeemBy |-> << >>,
      AppliesTo |-> << >>, CurrencyOptions |-> << >>, Metadata |-> << >>],
     [ID |-> "SALE", Name |-> "Sale", MaxRedemptions |-> <<9>>, RedeemBy |-> <<1>>,
      AppliesTo |-> <<<<"prod_1">>>>,
      CurrencyOptions |-> <<[c \in {"eur", "gbp"} |-> IF c = "eur" THEN <<400>> ELSE << >>]>>,
      Metadata |-> <<"m">>]}

CouponOptsInputs ==
    {CouponCreateOptions(p, a, c, d, m, rest) :
        p \in {<< >>, <<10>>}, a \in {<< >>, <<500>>}, c \in {"", "usd"},
        d \in {"", "once", "forever", "repeating", "weekly"},
        m \in {<< >>, <<3>>}, rest \in CouponRestInputs}

ValidDurations == {"forever", "once", "repeating"}

\* opts.Duration after CreateCoupon's default
DurationOf(opts) == IF opts.Duration = "" THEN "once" ELSE opts.Duration

CouponValidation_NoBothCheck(opts) ==
    IF opts.PercentOff = << >> /\ opts.AmountOff = << >>
    THEN Err("", "either percent_off or amount_off must be specified")
    ELSE IF opts.AmountOff # << >> /\ opts.Currency = ""
    THEN Err("", "currency is required when amount_off is specified")
    ELSE IF DurationOf(opts) \notin ValidDurations
    THEN Err("", "invalid duration")
    ELSE IF DurationOf(opts) = "repeating" /\ opts.DurationInMonths = << >>
    THEN Err("", "duration_in_months is required when duration is repeating")
    ELSE NoError

CouponValidation_NoMonthsCheck(opts) ==
    IF opts.PercentOff = << >> /\ opts.AmountOff = << >>
    THEN Err("", "either percent_off or amount_off must be specified")
    ELSE IF opts.PercentOff # << >> /\ opts.AmountOff # << >>
    THEN Err("", "cannot specify both percent_off and amount_off")
    ELSE IF opts.AmountOff # << >> /\ opts.Currency = ""
    THEN Err("", "currency is required when amount_off is specified")
    ELSE IF DurationOf(opts) \notin ValidDurations
    THEN Err("", "invalid duration")
    ELSE NoError

\* the checks CreateCoupon makes before it builds the request
CouponValidation(opts) ==
    IF opts.PercentOff = << >> /\ opts.AmountOff = << >>
    THEN Err("", "either percent_off or amount_off must be specified")
    ELSE IF opts.PercentOff # << >> /\ opts.AmountOff # << >>
    THEN Err("", "cannot specify both percent_off and amount_off")
    ELSE IF opts.AmountOff # << >> /\ opts.Currency = ""
    THEN Err("", "currency is required when amount_off is specified")
    ELSE IF DurationOf(opts) \notin ValidDurations
    THEN Err("", "invalid duration")
    ELSE IF DurationOf(opts) = "repeating" /\ opts.DurationInMonths = << >>
    THEN Err("", "duration_in_months is required when duration is repeating")
    ELSE NoError

\* the currency options with an amount
CurrencyOptionsParams(options) ==
    [c \in {x \in DOMAIN options : options[x] # << >>} |-> options[c]]

\* the stripe.CouponParams CreateCoupon builds
CouponParams(opts) ==
    [api |-> "coupon.New",
     Duration |-> <<DurationOf(opts)>>,
     ID |-> IF opts.ID # "" THEN <<opts.ID>> ELSE << >>,
     Name |-> IF opts.Name # "" THEN <<opts.Name>> ELSE << >>,
     PercentOff |-> opts.PercentOff,
     AmountOff |-> opts.AmountOff,
     Currency |-> IF opts.AmountOff # << >> THEN <<opts.Currency>> ELSE << >>,
     DurationInMonths |-> opts.DurationInMonths,
     MaxRedemptions |-> opts.MaxRedemptions,
     RedeemBy |-> opts.RedeemBy,
     Metadata |-> opts.Metadata,
     AppliesTo |-> IF opts.AppliesTo # << >> /\ Len(opts.AppliesTo[1]) > 0
                   THEN opts.AppliesTo ELSE << >>,
     CurrencyOptions |-> IF opts.CurrencyOptions # << >>
                         THEN <<CurrencyOptionsParams(opts.CurrencyOptions[1])>>
                         ELSE << >>]

CreateCouponOf_ResultOnError(opts, remoteOk) ==
    IF ~IsInitialized THEN Outcome(<< >>, ErrNotInitialized, << >>)
    ELSE IF CouponValidation(opts) # NoError
         THEN Outcome(<< >>, CouponValidation(opts), << >>)
    ELSE IF ~remoteOk
         THEN Outcome(<<[object |-> "coupon", of |-> CouponParams(opts)]>>,
                      Err(RemoteAPIError, "failed to create coupon"),
                      <<CouponParams(opts)>>)
    ELSE Outcome(<<[object |-> "coupon", of |-> CouponParams(opts)]>>, NoError,
                 <<CouponParams(opts)>>)

\* CouponService.CreateCoupon; remoteOk is whether the API accepts the request
CreateCouponOf(opts, remoteOk) ==
    IF ~IsInitialized THEN Outcome(<< >>, ErrNotInitialized, << >>)
    ELSE IF CouponValidation(opts) # NoError
         THEN Outcome(<< >>, CouponValidation(opts), << >>)
    ELSE IF ~remoteOk
         THEN Outcome(<< >>, Err(RemoteAPIError, "failed to create coupon"),
                      <<CouponParams(opts)>>)
    ELSE Outcome(<<[object |-> "coupon", of |-> CouponParams(opts)]>>, NoError,
                 <<CouponParams(opts)>>)

CreateCoupon(opts, remoteOk) ==
    Single("CreateCoupon", opts, CreateCouponOf(opts, remoteOk))

\* CouponService.ListCoupons
ListCoupons(listed) ==
    Single("ListCoupons", "", RemoteList("coupon.List", "", listed, "failed to list coupons"))

\* CouponService.GetCoupon
GetCouponOf(id, remoteOk) == Remote("coupon.Get", id, remoteOk, "failed to get coupon")
GetCoupon(id, remoteOk) == Single("GetCoupon", id, GetCouponOf(id, remoteOk))

\* CouponService.UpdateCoupon
UpdateCoupon(id, name, remoteOk) ==
    Single("UpdateCoupon", id,
           Remote("coupon.Update", <<id, name>>, remoteOk, "failed to update coupon"))

\* CouponService.DeleteCoupon: it returns an error only
DeleteCoupon(id, remoteOk) ==
    Single("DeleteCoupon", id,
           [Remote("coupon.Del", id, remoteOk, "failed to delete coupon")
               EXCEPT !.res = << >>])

----------------------------------------------------------------------------
(* Batch creation of promotion codes *)

BatchLimit == 1000
MaxErrorsShown == 5
\* the largest count the promo batch command is run with
MaxCmdCount == 3

BatchCreateOptions(couponID, count, prefix, maxRedemptions) ==
    [CouponID |-> couponID, Count |-> count, Prefix |-> prefix, Customer |-> "",
     MaxRedemptions |-> maxRedemptions, MinimumAmount |-> << >>, Currency |-> "",
     ExpiresAt |-> << >>, FirstTimeTransaction |-> << >>, Metadata |-> << >>]

\* min
Min(a, b) == IF a < b THEN a ELSE b

\* the lines of the aggregated error
HeaderLine(created, total) ==
    [kind |-> "created", a |-> created, b |-> total, code |-> << >>, cause |-> ""]
FailureLine(code, err) ==
    [kind |-> "failed to create code", a |-> 0, b |-> 0, code |-> code, cause |-> err.msg]
MoreLine(n) ==
    [kind |-> "more errors", a |-> n, b |-> 0, code |-> << >>, cause |-> ""]

BatchResult_AllMessages(codes, errors, count) ==
    IF Len(errors) > 0
    THEN Outcome(codes,
                 [wraps |-> "", msg |-> "created codes successfully",
                  detail |-> <<HeaderLine(Len(codes), count)>> \o errors],
                 << >>)
    ELSE Outcome(codes, NoError, << >>)

\* what BatchCreatePromotionCodes returns after its loop
BatchResult(codes, errors, count) ==
    IF Len(errors) > 0
    THEN Outcome(codes,
                 [wraps |-> "", msg |-> "created codes successfully",
                  detail |-> <<HeaderLine(Len(codes), count)>>
                      \o SubSeq(errors, 1, Min(Len(errors), MaxErrorsShown))
                      \o (IF Len(errors) > MaxErrorsShown
                          THEN <<MoreLine(Len(errors) - MaxErrorsShown)>> ELSE << >>)],
                 << >>)
    ELSE Outcome(codes, NoError, << >>)

BatchValidation_ZeroAllowed(opts) ==
    IF ~IsInitialized THEN ErrNotInitialized
    ELSE IF opts.CouponID = "" THEN Err("", "coupon ID is required")
    ELSE IF opts.Count < 0 THEN Err("", "count must be greater than 0")
    ELSE IF opts.Count > BatchLimit THEN Err("", "count cannot exceed 1000")
    ELSE NoError

\* the checks BatchCreatePromotionCodes makes before its loop
BatchValidation(opts) ==
    IF ~IsInitialized THEN ErrNotInitialized
    ELSE IF opts.CouponID = "" THEN Err("", "coupon ID is required")
    ELSE IF opts.Count <= 0 THEN Err("", "count must be greater than 0")
    ELSE IF opts.Count > BatchLimit THEN Err("", "count cannot exceed 1000")
    ELSE NoError

\* the call of BatchCreatePromotionCodes, up to the loop
BatchEnter(opts) ==
    /\ calls' = << >>
    /\ IF BatchValidation(opts) # NoError
       THEN /\ batch' = [pc |-> "done", opts |-> opts, i |-> 0,
                         codes |-> << >>, errors |-> << >>]
            /\ ret' = Return("BatchCreatePromotionCodes", opts, << >>,
                             BatchValidation(opts))
       ELSE /\ batch' = [pc |-> "loop", opts |-> opts, i |-> 0,
                         codes |-> << >>, errors |-> << >>]
            /\ ret' = Return("", "", << >>, NoError)

\* PromotionCodeService.BatchCreatePromotionCodes, called on its own
BatchCreatePromotionCodes(opts) ==
    /\ Idle
    /\ BatchEnter(opts)
    /\ cmd' = IdleCmd
    /\ UNCHANGED <<cfg, file, sc, stripeKey, inv>>

\* the options of the i-th create call of a batch
BatchCreateOpts(opts, code) ==
    PromotionCodeCreateOptions(opts.CouponID, code, opts.Customer, opts.MaxRedemptions,
                               opts.MinimumAmount, opts.Currency, opts.ExpiresAt,
                               opts.FirstTimeTransaction, << >>)

BatchIteration_StopOnError(suffix, remoteOk) ==
    LET code == generatePromotionCode(batch.opts.Prefix, batch.i + 1, suffix)
        r == CreatePromotionCodeOf(BatchCreateOpts(batch.opts, code), remoteOk)
    IN /\ calls' = calls \o r.sent
       /\ batch' = IF r.err # NoError
                   THEN [batch EXCEPT !.i = batch.opts.Count,
                                      !.errors = Append(@, FailureLine(code, r.err))]
                   ELSE [batch EXCEPT !.i = @ + 1,
                                      !.codes = Append(@, r.res[1])]

\* one iteration of the loop: generate a code, issue the create call, record
\* the created code or the failure
BatchIteration(suffix, remoteOk) ==
    LET code == generatePromotionCode(batch.opts.Prefix, batch.i + 1, suffix)
        r == CreatePromotionCodeOf(BatchCreateOpts(batch.opts, code), remoteOk)
    IN /\ calls' = calls \o r.sent
       /\ batch' = IF r.err # NoError
                   THEN [batch EXCEPT !.i = @ + 1,
                                      !.errors = Append(@, FailureLine(code, r.err))]
                   ELSE [batch EXCEPT !.i = @ + 1,
                                      !.codes = Append(@, r.res[1])]

BatchStep ==
    /\ batch.pc = "loop"
    /\ batch.i < batch.opts.Count
    /\ \E suffix \in SuffixInputs, remoteOk \in BOOLEAN : BatchIteration(suffix, remoteOk)
    /\ UNCHANGED <<cfg, file, ret, sc, stripeKey, cmd, inv>>

\* the loop has ended: the aggregated result is returned
BatchReturn ==
    /\ batch.pc = "loop"
    /\ ~(batch.i < batch.opts.Count)
    /\ LET r == BatchResult(batch.codes, batch.errors, batch.opts.Count)
       IN ret' = Return("BatchCreatePromotionCodes", batch.opts, r.res, r.err)
    /\ batch' = [batch EXCEPT !.pc = "done"]
    /\ UNCHANGED <<cfg, file, sc, stripeKey, calls, cmd, inv>>

----------------------------------------------------------------------------
(* The promo batch command *)

\* the answers promptBatchCreateOptions may collect: the count prompt accepts
\* 1..1000 only, an empty max-redemptions answer leaves the pointer nil
PromptInputs ==
    {[ok |-> ok, count |-> n, prefix |-> <<"P", "R", "O", "M", "O">>, maxRedemptions |-> mr] :
        ok \in BOOLEAN, n \in 1..MaxCmdCount, mr \in {<< >>, <<5>>}}

CmdFailed == [state |-> "failed", warned |-> FALSE, created |-> 0, shown |-> << >>]

\* promoBatchCmd up to its call of BatchCreatePromotionCodes: the flags, the
\* check that the coupon exists, the prompt when --count is 0
PromoBatchCmd(couponID, count, prefix, maxRedemptions, couponOk, prompt) ==
    /\ Idle
    /\ IF GetCouponOf(couponID, couponOk).err # NoError
       THEN /\ cmd' = CmdFailed
            /\ ret' = Return("GetCoupon", couponID, << >>,
                             GetCouponOf(couponID, couponOk).err)
            /\ calls' = GetCouponOf(couponID, couponOk).sent
            /\ batch' = IdleBatch
       ELSE IF count = 0 /\ ~prompt.ok
       THEN /\ cmd' = CmdFailed
            /\ ret' = Return("promptBatchCreateOptions", couponID, << >>,
                             Err("", "failed to get batch options"))
            /\ calls' = GetCouponOf(couponID, couponOk).sent
            /\ batch' = IdleBatch
       ELSE /\ cmd' = [IdleCmd EXCEPT !.state = "running"]
            /\ BatchEnter(IF count = 0
                          THEN BatchCreateOptions(couponID, prompt.count, prompt.prefix,
                                                  prompt.maxRedemptions)
                          ELSE BatchCreateOptions(couponID, count, prefix,
                                                  <<maxRedemptions>>))
    /\ UNCHANGED <<cfg, file, sc, stripeKey, inv>>

PromoBatchCmdEnd_FailOnAnyError ==
    /\ cmd.state = "running"
    /\ batch.pc = "done"
    /\ cmd' = IF ret.err # NoError
              THEN CmdFailed
              ELSE [state |-> "ok", warned |-> ret.err # NoError,
                    created |-> Len(ret.res),
                    shown |-> SubSeq(ret.res, 1, Min(Len(ret.res), MaxErrorsShown))]
    /\ UNCHANGED <<cfg, file, ret, sc, stripeKey, calls, batch, inv>>

\* promoBatchCmd after BatchCreatePromotionCodes has returned (codes, err)
PromoBatchCmdEnd ==
    /\ cmd.state = "running"
    /\ batch.pc = "done"
    /\ cmd' = IF ret.err # NoError /\ Len(ret.res) = 0
              THEN CmdFailed
              ELSE [state |-> "ok", warned |-> ret.err # NoError,
                    created |-> Len(ret.res),
                    shown |-> SubSeq(ret.res, 1, Min(Len(ret.res), MaxErrorsShown))]
    /\ UNCHANGED <<cfg, file, ret, sc, stripeKey, calls, batch, inv>>

----------------------------------------------------------------------------
(* The Stripe services on a loaded configuration *)

\* a configuration of two environments, one of them without a key
StripeConfig ==
    [loaded |-> TRUE, current |-> "test",
     envs |-> [n \in {"test", "prod"} |->
                  IF n = "test" THEN Environment(SkKey, "usd", "table")
                  ELSE Environment(NoKey, "eur", "json")]]

\* the arguments of the batch call and of the batch command
CountInputs == {-1, 0} \cup (1..MaxCount) \cup {BatchLimit + 1}
CmdCountInputs == {-1, 0} \cup (1..MaxCmdCount) \cup {BatchLimit + 1}
PrefixInputs == {<< >>, <<"b", "e", "a", "r">>}
BatchOptsInputs ==
    {BatchCreateOptions(id, n, p, << >>) :
        id \in CouponIDs, n \in CountInputs, p \in PrefixInputs}

\* the process ends; the next one starts with a new Manager and Client
Exit ==
    /\ batch.pc # "loop"
    /\ cmd.state # "running"
    /\ cfg' = NilConfig
    /\ ret' = Return("", "", << >>, NoError)
    /\ sc' = NoKey
    /\ stripeKey' = NoKey
    /\ calls' = << >>
    /\ batch' = IdleBatch
    /\ cmd' = IdleCmd
    /\ UNCHANGED <<file, inv>>

InitStripe ==
    /\ cfg = NilConfig
    /\ file = Save(StripeConfig, AbsentFile)
    /\ ret = Return("", "", << >>, NoError)
    /\ sc = NoKey
    /\ stripeKey = NoKey
    /\ calls = << >>
    /\ batch = IdleBatch
    /\ cmd = IdleCmd
    /\ inv = NoInvocations

NextStripe ==
    \/ Load
    \/ Exit
    \/ Idle /\ \E name \in Names : Initialize(name)
    \/ ClientGetCurrentEnvironment
    \/ Idle /\ \E name \in Names : GetEnvironment(name)
    \/ GetCurrentEnvironmentConfig
    \/ Idle /\ \E remoteOk \in BOOLEAN : TestConnection(remoteOk)
    \/ Idle /\ \E listed \in ListOutcomes : ListCoupons(listed)
    \/ Idle /\ \E id \in CouponIDs, remoteOk \in BOOLEAN : GetCoupon(id, remoteOk)
    \/ Idle /\ \E opts \in CouponOptsInputs, remoteOk \in BOOLEAN :
                  CreateCoupon(opts, remoteOk)
    \/ Idle /\ \E id \in CouponIDs, remoteOk \in BOOLEAN : UpdateCoupon(id, "Sale", remoteOk)
    \/ Idle /\ \E id \in CouponIDs, remoteOk \in BOOLEAN : DeleteCoupon(id, remoteOk)
    \/ Idle /\ \E id \in CouponIDs, listed \in ListOutcomes : ListPromotionCodes(id, listed)
    \/ Idle /\ \E id \in {"promo_1"}, remoteOk \in BOOLEAN : GetPromotionCode(id, remoteOk)
    \/ Idle /\ \E opts \in PromoOptsInputs, remoteOk \in BOOLEAN :
                  CreatePromotionCode(opts, remoteOk)
    \/ Idle /\ \E id \in {"promo_1"}, active \in BOOLEAN, remoteOk \in BOOLEAN :
                  UpdatePromotionCode(id, active, remoteOk)
    \/ Idle /\ \E opts \in BatchOptsInputs : BatchCreatePromotionCodes(opts)
    \/ BatchStep
    \/ BatchReturn
    \/ Idle /\ \E id \in CouponIDs, n \in CmdCountInputs, p \in PrefixInputs,
                  mr \in {0, 5}, couponOk \in BOOLEAN, prompt \in PromptInputs :
                  PromoBatchCmd(id, n, p, mr, couponOk, prompt)
    \/ PromoBatchCmdEnd

SpecStripe == InitStripe /\ [][NextStripe]_vars

----------------------------------------------------------------------------
(* The batch call on its own, with its scheduling *)

\* the largest count of a batch whose termination is checked
MaxLoopCount == 4

LoopOptsInputs ==
    {BatchCreateOptions(id, n, p, << >>) :
        id \in CouponIDs, n \in 0..MaxLoopCount, p \in PrefixInputs}

NextLoop ==
    \/ Load
    \/ Exit
    \/ Idle /\ \E name \in Names : Initialize(name)
    \/ Idle /\ \E opts \in LoopOptsInputs : BatchCreatePromotionCodes(opts)
    \/ BatchStep
    \/ BatchReturn

\* the loop runs in one goroutine and every create call blocks until its
\* response returns: a batch that can take its next step takes it
SpecLoop ==
    InitStripe /\ [][NextLoop]_vars /\ WF_vars(BatchStep) /\ WF_vars(BatchReturn)

----------------------------------------------------------------------------
(* The API key validator on its own *)

KeyPrefixes ==
    {<< >>, <<"s", "k", "_">>, <<"r", "k", "_">>, <<"p", "k", "_">>,
     <<"s", "k">>, <<"r", "k", "-">>, <<"S", "K", "_">>, <<"x", "s", "k", "_">>,
     <<"a", "b", "c">>}

\* every prefix padded to every length up to MaxKeyLen
KeySpace == {PadKey(p, n) : p \in KeyPrefixes, n \in 0..MaxKeyLen}

ValidateAPIKey(apiKey) ==
    /\ ret' = Return("validateAPIKey", apiKey, << >>, validateAPIKey(apiKey))
    /\ UNCHANGED <<cfg, file, sc, stripeKey, calls, batch, cmd, inv>>

InitKey ==
    /\ cfg = DefaultConfig
    /\ file = Save(DefaultConfig, AbsentFile)
    /\ ret = Return("", "", << >>, NoError)
    /\ sc = NoKey
    /\ stripeKey = NoKey
    /\ calls = << >>
    /\ batch = IdleBatch
    /\ cmd = IdleCmd
    /\ inv = NoInvocations

NextKey == \E apiKey \in KeySpace : ValidateAPIKey(apiKey)

SpecKey == InitKey /\ [][NextKey]_vars

----------------------------------------------------------------------------
(* Two CLI invocations on one config file.  Each is a process with its own
   Manager; the file is not locked.  os.WriteFile opens the file with
   O_TRUNC, which empties it, and then writes the document at offset 0, as
   two system calls that another process may come between. *)

Invocations == {1, 2}

\* the number of bytes json.MarshalIndent(config, "", "  ") yields for the
\* environments named in names
RECURSIVE EntriesSize(_, _)
EntriesSize(envs, names) ==
    IF names = {} THEN 0
    ELSE LET n == CHOOSE x \in names : TRUE
         IN 99 + Len(n) + Len(envs[n].StripeAPIKey) + Len(envs[n].DefaultCurrency)
               + Len(envs[n].OutputFormat)
               + (IF names = {n} THEN 0 ELSE 2)
               + EntriesSize(envs, names \ {n})

\* the number of bytes of the document Save writes
DocSize(data) ==
    51 + Len(data.cur)
       + (IF ~data.hasEnvs THEN 4
          ELSE IF DOMAIN data.envs = {} THEN 2
          ELSE 6 + EntriesSize(data.envs, DOMAIN data.envs))

\* the file after open(O_WRONLY|O_CREATE|O_TRUNC): it has no bytes
EmptyFile(f) ==
    [kind |-> "empty", cur |-> "", hasEnvs |-> FALSE, envs |-> NoEnvs, mode |-> f.mode]

\* the bytes of one document followed by the tail of a longer one that was
\* written before it: not a JSON document
MixedFile(f) ==
    [kind |-> "mixed", cur |-> "", hasEnvs |-> FALSE, envs |-> NoEnvs, mode |-> f.mode]

\* write(fd, data) at offset 0 of a file opened earlier: the bytes replace
\* the head of what the file holds at that moment
WriteAtStart(f, data) ==
    IF f.kind = "json" /\ DocSize(data) < DocSize(f)
    THEN MixedFile(f)
    ELSE JsonFile(data.cur, data.hasEnvs, data.envs, f.mode)

\* the commands the invocations run
RaceCommands ==
    {[op |-> "SetCurrentEnvironment", name |-> "prod", key |-> NoKey],
     [op |-> "AddEnvironment", name |-> "dev", key |-> SkKey],
     [op |-> "RemoveEnvironment", name |-> "prod", key |-> NoKey],
     [op |-> "RemoveEnvironment", name |-> "dev", key |-> NoKey],
     [op |-> "UpdateEnvironmentAPIKey", name |-> "test", key |-> RkKey],
     [op |-> "Reset", name |-> "", key |-> NoKey]}

\* the Configs the command's operation may leave in memory before it
\* calls Save; none when the operation returns an error first
Mutated(c, command) ==
    IF command.op = "Reset" THEN {DefaultConfig}
    ELSE IF command.op = "AddEnvironment"
    THEN {[c EXCEPT !.envs = MapSet(@, command.name,
                                    WithDefaults(Environment(command.key, "", "")))]}
    ELSE IF command.name \notin DOMAIN c.envs THEN {}
    ELSE IF command.op = "SetCurrentEnvironment"
    THEN {[c EXCEPT !.current = command.name]}
    ELSE IF command.op = "UpdateEnvironmentAPIKey"
    THEN {[c EXCEPT !.envs[command.name].StripeAPIKey = command.key]}
    ELSE IF Cardinality(DOMAIN c.envs) = 1 THEN {}
    ELSE {[c EXCEPT !.envs = MapDelete(@, command.name), !.current = next] :
             next \in NextCurrent(c, command.name)}

\* the logical time of the next step: one more than every time recorded
RaceClock ==
    1 + inv[1].loadedAt + inv[1].savedAt + inv[2].loadedAt + inv[2].savedAt

RaceFrame == UNCHANGED <<cfg, ret, sc, stripeKey, calls, batch, cmd>>

\* Manager.Load of invocation p: os.ReadFile and json.Unmarshal
RaceLoad(p) ==
    /\ inv[p].pc = "start"
    /\ IF file.kind = "json"
       THEN inv' = [inv EXCEPT ![p].pc = "loaded", ![p].cfg = Unmarshal(file),
                               ![p].loadedAt = RaceClock]
       ELSE inv' = [inv EXCEPT ![p].pc = "failed", ![p].loadedAt = RaceClock]
    /\ UNCHANGED file
    /\ RaceFrame

\* the in-memory part of the command's operation
RaceMutate(p, command) ==
    /\ inv[p].pc = "loaded"
    /\ IF Mutated(inv[p].cfg, command) = {}
       THEN inv' = [inv EXCEPT ![p].pc = "failed"]
       ELSE \E c \in Mutated(inv[p].cfg, command) :
               inv' = [inv EXCEPT ![p].pc = "mutated", ![p].cfg = c]
    /\ UNCHANGED file
    /\ RaceFrame

\* Manager.Save, first half: os.WriteFile opens the file and truncates it
RaceOpen(p) ==
    /\ inv[p].pc = "mutated"
    /\ file' = EmptyFile(file)
    /\ inv' = [inv EXCEPT ![p].pc = "opened"]
    /\ RaceFrame

\* Manager.Save, second half: os.WriteFile writes the document and closes
RaceWrite(p) ==
    /\ inv[p].pc = "opened"
    /\ file' = WriteAtStart(file, Marshal(inv[p].cfg))
    /\ inv' = [inv EXCEPT ![p].pc = "saved", ![p].savedAt = RaceClock]
    /\ RaceFrame

\* the file the invocations start on: one the program wrote
RaceConfig ==
    [loaded |-> TRUE, current |-> "test",
     envs |-> [n \in {"test", "prod", "dev"} |->
                  IF n = "test" THEN Environment(SkKey, "usd", "table")
                  ELSE Environment(NoKey, "eur", "json")]]

InitRace ==
    /\ cfg = NilConfig
    /\ file = Save(RaceConfig, AbsentFile)
    /\ ret = Return("", "", << >>, NoError)
    /\ sc = NoKey
    /\ stripeKey = NoKey
    /\ calls = << >>
    /\ batch = IdleBatch
    /\ cmd = IdleCmd
    /\ inv = [p \in Invocations |->
                 [pc |-> "start", cfg |-> NilConfig, loadedAt |-> 0, savedAt |-> 0]]

NextRace ==
    \/ \E p \in Invocations : RaceLoad(p)
    \/ \E p \in Invocations, command \in RaceCommands : RaceMutate(p, command)
    \/ \E p \in Invocations : RaceOpen(p)
    \/ \E p \in Invocations : RaceWrite(p)

SpecRace == InitRace /\ [][NextRace]_vars

----------------------------------------------------------------------------
(* The command line: one process per invocation.  init() makes a new
   Manager and Client, cobra parses the command and the persistent flags,
   runs the root command's PersistentPreRunE and then the command's RunE. *)

\* bufio.Reader.ReadString('\n') on what the user typed: the text up to and
\* including the first newline, or an error at end of input
ReadString(typed) ==
    IF \E i \in 1..Len(typed) : typed[i] = "\n"
    THEN LET n == CHOOSE i \in 1..Len(typed) :
                      typed[i] = "\n" /\ \A j \in 1..(i - 1) : typed[j] # "\n"
         IN <<SubSeq(typed, 1, n), NoError>>
    ELSE <<typed, Err("EOF", "EOF")>>

IsSpace(ch) == ch \in {" ", "\t", "\n", "\r"}

\* strings.TrimSpace
TrimSpace(s) ==
    IF \A i \in 1..Len(s) : IsSpace(s[i]) THEN << >>
    ELSE LET first == CHOOSE i \in 1..Len(s) :
                          ~IsSpace(s[i]) /\ \A j \in 1..(i - 1) : IsSpace(s[j])
             last == CHOOSE i \in 1..Len(s) :
                         ~IsSpace(s[i]) /\ \A j \in (i + 1)..Len(s) : IsSpace(s[j])
         IN SubSeq(s, first, last)

\* Manager.PromptAPIKey: the (key, error) pair it returns for the line typed
PromptAPIKey(typed) ==
    LET r == ReadString(typed)
        apiKey == TrimSpace(r[1])
    IN IF r[2] # NoError THEN <<NoKey, Err(r[2].wraps, "failed to read API key")>>
       ELSE IF validateAPIKey(apiKey) # NoError
       THEN <<NoKey, Err(validateAPIKey(apiKey).wraps, "invalid API key")>>
       ELSE <<apiKey, NoError>>

\* what the user types at the API key prompt: nothing, a valid key, a
\* valid key with blanks around it, a short key, and end of input
TypedInputs ==
    {<<"\n">>, SkKey \o <<"\n">>, <<" ">> \o SkKey \o <<" ", "\n">>,
     ShortKey \o <<"\n">>, SkKey}

\* Manager.Load as a function of the Manager's Config and the file: the
\* Config, the file and the error after it
LoadOf(c, f) ==
    IF f.kind = "absent"
    THEN [cfg |-> DefaultConfig, file |-> Save(DefaultConfig, f), err |-> NoError]
    ELSE IF f.kind = "corrupt"
    THEN [cfg |-> c, file |-> f, err |-> Err("", "failed to parse config file")]
    ELSE [cfg |-> Unmarshal(f), file |-> f, err |-> NoError]

\* Manager.UpdateEnvironmentAPIKey as a function of the Config and the file
UpdateEnvironmentAPIKeyOf(c, f, envName, apiKey) ==
    IF ~c.loaded THEN [cfg |-> c, file |-> f, err |-> ErrConfigNotLoaded]
    ELSE IF envName \notin DOMAIN c.envs THEN [cfg |-> c, file |-> f, err |-> ErrNotFound]
    ELSE IF validateAPIKey(apiKey) # NoError
    THEN [cfg |-> c, file |-> f, err |-> validateAPIKey(apiKey)]
    ELSE LET updated == [c EXCEPT !.envs[envName].StripeAPIKey = apiKey]
         IN [cfg |-> updated, file |-> Save(updated, f), err |-> NoError]

\* Manager.EnsureAPIKey: the Config, the file and the error after it, and
\* whether the user was asked for a key
EnsureAPIKeyOf(c, f, envName, typed) ==
    LET g == GetEnvironmentOf(c, envName)
        p == PromptAPIKey(typed)
        u == UpdateEnvironmentAPIKeyOf(c, f, envName, p[1])
    IN IF g[2] # NoError
       THEN [cfg |-> c, file |-> f, err |-> g[2], prompted |-> FALSE]
       ELSE IF g[1][1].StripeAPIKey # NoKey
       THEN [cfg |-> c, file |-> f, err |-> NoError, prompted |-> FALSE]
       ELSE IF p[2] # NoError
       THEN [cfg |-> c, file |-> f, err |-> Err(p[2].wraps, "failed to get API key"),
             prompted |-> TRUE]
       ELSE IF u.err # NoError
       THEN [cfg |-> u.cfg, file |-> u.file,
             err |-> Err(u.err.wraps, "failed to save API key"), prompted |-> TRUE]
       ELSE [cfg |-> u.cfg, file |-> u.file, err |-> NoError, prompted |-> TRUE]

\* Client.Initialize as a function of the Config and the client: the
\* client's key and the error after it
InitializeOf(c, client, envName) ==
    LET r == IF envName # "" THEN GetEnvironmentOf(c, envName)
             ELSE GetEnvironmentOf(c, GetCurrentEnvironmentName(c))
    IN IF r[2] # NoError
       THEN [sc |-> client, err |-> Err(r[2].wraps, "failed to get environment config")]
       ELSE IF r[1][1].StripeAPIKey = NoKey
       THEN [sc |-> client, err |-> Err("", "no API key found for environment")]
       ELSE [sc |-> r[1][1].StripeAPIKey, err |-> NoError]

SkipsInitialization_Always(parent, name) == TRUE

\* the commands PersistentPreRunE returns early for
SkipsInitialization(parent, name) ==
    \/ name = "version"
    \/ parent = "config" /\ name \in {"init", "show", "list-env", "reset"}

\* what PersistentPreRunE leaves behind: the Config, the file, the client,
\* the target environment, its error, the calls it made in their order and
\* whether the user was asked for a key
PreRunResult(c, f, client, targetEnv, err, trace, prompted) ==
    [cfg |-> c, file |-> f, sc |-> client, targetEnv |-> targetEnv, err |-> err,
     trace |-> trace, prompted |-> prompted]

PersistentPreRunEOf_CurrentOnly(c, f, client, parent, name, envFlag, typed) ==
    LET l == LoadOf(c, f)
        targetEnv == GetCurrentEnvironmentName(l.cfg)
        g == GetEnvironmentOf(l.cfg, targetEnv)
        e == EnsureAPIKeyOf(l.cfg, l.file, targetEnv, typed)
        i == InitializeOf(e.cfg, client, targetEnv)
    IN IF SkipsInitialization(parent, name)
       THEN PreRunResult(c, f, client, "", NoError, << >>, FALSE)
       ELSE IF l.err # NoError
       THEN PreRunResult(l.cfg, l.file, client, "",
                         Err(l.err.wraps, "failed to load configuration"),
                         <<"Load">>, FALSE)
       ELSE IF g[2] # NoError
       THEN PreRunResult(l.cfg, l.file, client, targetEnv, g[2],
                         <<"Load", "GetEnvironment">>, FALSE)
       ELSE IF e.err # NoError
       THEN PreRunResult(e.cfg, e.file, client, targetEnv,
                         Err(e.err.wraps, "failed to ensure API key"),
                         <<"Load", "GetEnvironment", "EnsureAPIKey">>, e.prompted)
       ELSE PreRunResult(e.cfg, e.file, i.sc, targetEnv,
                         IF i.err # NoError
                         THEN Err(i.err.wraps, "failed to initialize Stripe client")
                         ELSE NoError,
                         <<"Load", "GetEnvironment", "EnsureAPIKey", "Initialize">>,
                         e.prompted)

\* rootCmd.PersistentPreRunE for the command parent/name run with --env
\* envFlag, the user typing typed when asked for a key
PersistentPreRunEOf(c, f, client, parent, name, envFlag, typed) ==
    LET l == LoadOf(c, f)
        targetEnv == IF envFlag = "" THEN GetCurrentEnvironmentName(l.cfg) ELSE envFlag
        g == GetEnvironmentOf(l.cfg, targetEnv)
        e == EnsureAPIKeyOf(l.cfg, l.file, targetEnv, typed)
        i == InitializeOf(e.cfg, client, targetEnv)
    IN IF SkipsInitialization(parent, name)
       THEN PreRunResult(c, f, client, "", NoError, << >>, FALSE)
       ELSE IF l.err # NoError
       THEN PreRunResult(l.cfg, l.file, client, "",
                         Err(l.err.wraps, "failed to load configuration"),
                         <<"Load">>, FALSE)
       ELSE IF g[2] # NoError
       THEN PreRunResult(l.cfg, l.file, client, targetEnv, g[2],
                         <<"Load", "GetEnvironment">>, FALSE)
       ELSE IF e.err # NoError
       THEN PreRunResult(e.cfg, e.file, client, targetEnv,
                         Err(e.err.wraps, "failed to ensure API key"),
                         <<"Load", "GetEnvironment", "EnsureAPIKey">>, e.prompted)
       ELSE PreRunResult(e.cfg, e.file, i.sc, targetEnv,
                         IF i.err # NoError
                         THEN Err(i.err.wraps, "failed to initialize Stripe client")
                         ELSE NoError,
                         <<"Load", "GetEnvironment", "EnsureAPIKey", "Initialize">>,
                         e.prompted)

\* NewOutputRenderer: the format the renderer works with
NewOutputRenderer(format) == IF format = "" THEN "table" ELSE format

\* the list and get commands' "Determine output format", handed to
\* NewOutputRenderer: stripeClient.GetCurrentEnvironment() is the Manager's
\* current environment
OutputFormatOf(c, formatFlag) ==
    LET env == GetEnvironmentOf(c, GetCurrentEnvironmentName(c))[1]
    IN NewOutputRenderer(IF formatFlag # "" THEN formatFlag
                         ELSE IF env # << >> THEN env[1].OutputFormat
                         ELSE "table")

Stars == <<"*", "*", "*", "*">>
NotSet == <<"N", "o", "t", " ", "s", "e", "t">>

maskAPIKey_NoMask(apiKey) == apiKey

\* maskAPIKey
maskAPIKey(apiKey) ==
    IF apiKey = << >> THEN NotSet
    ELSE IF Len(apiKey) <= 10 THEN Stars
    ELSE SubSeq(apiKey, 1, 3) \o Stars \o SubSeq(apiKey, Len(apiKey) - 3, Len(apiKey))

\* what config show prints for the Config c: in JSON the copy of the Config
\* with each non-empty key masked, in a table one row per environment
ConfigShowOutput(c, formatFlag) ==
    IF formatFlag = "json"
    THEN [format |-> "json", current |-> c.current,
          envs |-> [n \in DOMAIN c.envs |->
                       [c.envs[n] EXCEPT !.StripeAPIKey =
                           IF @ # NoKey THEN maskAPIKey(@) ELSE @]]]
    ELSE [format |-> "table", current |-> c.current,
          envs |-> [n \in DOMAIN c.envs |->
                       [c.envs[n] EXCEPT !.StripeAPIKey = maskAPIKey(@)]]]

\* the commands that are run: version, the config subcommands but init,
\* and the list, get and delete commands of coupon and promo
Commands ==
    {<<"", "version">>}
    \cup {<<"config", n>> : n \in {"show", "list-env", "reset", "use", "add-env",
                                   "remove-env", "set-key"}}
    \cup {<<"coupon", n>> : n \in {"list", "get", "delete"}}
    \cup {<<"promo", n>> : n \in {"list", "get"}}

\* the config subcommands that take an environment name
TakesEnvironment == {"use", "add-env", "remove-env", "set-key"}
\* the config subcommands whose RunE starts with configManager.Load()
LoadsFirst == {"list-env", "use", "add-env", "remove-env", "set-key"}
\* the calls after which a list or get command determines the output format
RenderedOps == {"ListCoupons", "GetCoupon", "ListPromotionCodes", "GetPromotionCode"}

EnvFlagInputs == {"", "test", "prod", "dev"}
FormatFlagInputs == {"", "json"}
EnvArgInputs == {"test", "prod", "dev"}

\* no process runs
NoProcess ==
    [pc |-> "done", parent |-> "", name |-> "", arg |-> "", envFlag |-> "",
     formatFlag |-> "", targetEnv |-> "", trace |-> << >>, prompted |-> FALSE,
     format |-> ""]

\* a process starts: init() makes the Manager and the Client, and cobra
\* parses the command, its argument and the persistent flags
Execute(parent, name, arg, envFlag, formatFlag) ==
    /\ inv.pc = "done"
    /\ inv' = [NoProcess EXCEPT !.pc = "prerun", !.parent = parent, !.name = name,
                                !.arg = arg, !.envFlag = envFlag,
                                !.formatFlag = formatFlag]
    /\ cfg' = NilConfig
    /\ sc' = NoKey
    /\ stripeKey' = NoKey
    /\ ret' = Return("Execute", name, << >>, NoError)
    /\ calls' = << >>
    /\ batch' = IdleBatch
    /\ cmd' = IdleCmd
    /\ UNCHANGED file

\* rootCmd.PersistentPreRunE; on an error cobra does not run the command
PersistentPreRunE(typed) ==
    /\ inv.pc = "prerun"
    /\ LET r == PersistentPreRunEOf(cfg, file, sc, inv.parent, inv.name,
                                    inv.envFlag, typed)
       IN /\ cfg' = r.cfg
          /\ file' = r.file
          /\ sc' = r.sc
          /\ stripeKey' = r.sc
          /\ ret' = Return("PersistentPreRunE", r.targetEnv, << >>, r.err)
          /\ inv' = [inv EXCEPT !.pc = IF r.err = NoError THEN "run" ELSE "done",
                                !.targetEnv = r.targetEnv, !.trace = r.trace,
                                !.prompted = r.prompted]
    /\ calls' = << >>
    /\ UNCHANGED <<batch, cmd>>

\* the command's RunE is about to start
RunEStarts(parent, name) ==
    /\ inv.pc = "run"
    /\ inv.parent = parent
    /\ inv.name = name
    /\ ret.op = "PersistentPreRunE"

\* the config subcommand name has loaded the configuration
ConfigLoaded(name) ==
    /\ inv.pc = "run"
    /\ inv.parent = "config"
    /\ inv.name = name
    /\ ret.op = "Load"
    /\ ret.err = NoError

\* versionCmd.Run
Version ==
    /\ RunEStarts("", "version")
    /\ inv' = [inv EXCEPT !.pc = "done"]
    /\ ret' = Return("version", "", << >>, NoError)
    /\ calls' = << >>
    /\ UNCHANGED <<cfg, file, sc, stripeKey, batch, cmd>>

\* configShowCmd.RunE (after a successful Load the Config is never nil)
ConfigShow ==
    /\ RunEStarts("config", "show")
    /\ LET l == LoadOf(cfg, file)
       IN /\ cfg' = l.cfg
          /\ file' = l.file
          /\ ret' = IF l.err # NoError
                    THEN Return("config show", inv.formatFlag, << >>,
                                Err(l.err.wraps, "failed to load configuration"))
                    ELSE Return("config show", inv.formatFlag,
                                <<ConfigShowOutput(l.cfg, inv.formatFlag)>>, NoError)
    /\ inv' = [inv EXCEPT !.pc = "done"]
    /\ calls' = << >>
    /\ UNCHANGED <<sc, stripeKey, batch, cmd>>

\* the configManager.Load() that starts the RunE of list-env, use, add-env,
\* remove-env and set-key
ConfigLoad ==
    /\ inv.pc = "run"
    /\ inv.parent = "config"
    /\ inv.name \in LoadsFirst
    /\ ret.op = "PersistentPreRunE"
    /\ Load

\* configUseCmd.RunE after its Load
ConfigUse ==
    /\ ConfigLoaded("use")
    /\ SetCurrentEnvironment(inv.arg)

\* configSetKeyCmd.RunE after its Load
ConfigSetKey(typed) ==
    /\ ConfigLoaded("set-key")
    /\ LET p == PromptAPIKey(typed)
       IN IF p[2] # NoError
          THEN /\ ret' = Return("PromptAPIKey", inv.arg, << >>,
                                Err(p[2].wraps, "failed to get API key"))
               /\ UNCHANGED <<cfg, file>>
               /\ StoreFrame
          ELSE UpdateEnvironmentAPIKey(inv.arg, p[1])

\* configAddEnvCmd.RunE after its Load
ConfigAddEnv(typed) ==
    /\ ConfigLoaded("add-env")
    /\ LET p == PromptAPIKey(typed)
       IN IF GetEnvironmentOf(cfg, inv.arg)[2] = NoError
          THEN /\ ret' = Return("GetEnvironment", inv.arg, << >>,
                                Err("", "environment already exists"))
               /\ UNCHANGED <<cfg, file>>
               /\ StoreFrame
          ELSE IF p[2] # NoError
          THEN /\ ret' = Return("PromptAPIKey", inv.arg, << >>,
                                Err(p[2].wraps, "failed to get API key"))
               /\ UNCHANGED <<cfg, file>>
               /\ StoreFrame
          ELSE AddEnvironment(inv.arg, Environment(p[1], "usd", "table"))

\* configRemoveEnvCmd.RunE after its Load; confirmed is the answer "Yes"
ConfigRemoveEnv(confirmed) ==
    /\ ConfigLoaded("remove-env")
    /\ IF ~confirmed
       THEN /\ ret' = Return("Operation cancelled", inv.arg, << >>, NoError)
            /\ UNCHANGED <<cfg, file>>
            /\ StoreFrame
       ELSE RemoveEnvironment(inv.arg)

\* configResetCmd.RunE; confirmed is the answer "Yes"
ConfigReset(confirmed) ==
    /\ RunEStarts("config", "reset")
    /\ IF ~confirmed
       THEN /\ ret' = Return("Operation cancelled", "", << >>, NoError)
            /\ UNCHANGED <<cfg, file>>
            /\ StoreFrame
       ELSE Reset

\* couponListCmd.RunE up to the return of ListCoupons
CouponList(listed) == RunEStarts("coupon", "list") /\ ListCoupons(listed)

\* couponGetCmd.RunE up to the return of GetCoupon
CouponGet(remoteOk) == RunEStarts("coupon", "get") /\ GetCoupon(inv.arg, remoteOk)

\* couponDeleteCmd.RunE; confirmed is the answer "Yes"
CouponDelete(confirmed, remoteOk) ==
    /\ RunEStarts("coupon", "delete")
    /\ IF ~confirmed
       THEN /\ ret' = Return("Operation cancelled", inv.arg, << >>, NoError)
            /\ UNCHANGED <<cfg, file>>
            /\ StoreFrame
       ELSE DeleteCoupon(inv.arg, remoteOk)

\* promoListCmd.RunE up to the return of ListPromotionCodes
PromoList(listed) == RunEStarts("promo", "list") /\ ListPromotionCodes(inv.arg, listed)

\* promoGetCmd.RunE up to the return of GetPromotionCode
PromoGet(remoteOk) == RunEStarts("promo", "get") /\ GetPromotionCode(inv.arg, remoteOk)

\* the rest of a RunE after its last call returned: the list and get
\* commands with something to show determine the output format and render,
\* every command returns and the process ends
RunEReturn ==
    /\ inv.pc = "run"
    /\ ret.op # "PersistentPreRunE"
    /\ ret.op = "Load" /\ ret.err = NoError => inv.name = "list-env"
    /\ inv' = [inv EXCEPT
                  !.pc = "done",
                  !.format = IF ret.op \in RenderedOps /\ ret.err = NoError
                                /\ ret.res # << >>
                             THEN OutputFormatOf(cfg, inv.formatFlag) ELSE ""]
    /\ UNCHANGED <<cfg, file, ret, sc, stripeKey, calls, batch, cmd>>

\* the config file the invocations start from: none; one that does not
\* parse; one the program wrote, with an environment without a key and a
\* current environment with one; and two written by hand, one without
\* current_environment and with an empty output_format, one whose
\* current_environment names no environment
CliFiles ==
    {AbsentFile, CorruptFile,
     JsonFile("prod", TRUE,
              [n \in {"test", "prod"} |->
                  IF n = "test" THEN Environment(NoKey, "usd", "table")
                  ELSE Environment(RkKey, "eur", "json")],
              ConfigFileMode),
     JsonFile("", TRUE,
              [n \in {"test", "prod"} |->
                  IF n = "test" THEN Environment(SkKey, "usd", "")
                  ELSE Environment(NoKey, "eur", "json")],
              ConfigFileMode),
     JsonFile("dev", TRUE, [n \in {"prod"} |-> Environment(SkKey, "eur", "json")],
              ConfigFileMode)}

InitCli ==
    /\ cfg = NilConfig
    /\ file \in CliFiles
    /\ ret = Return("", "", << >>, NoError)
    /\ sc = NoKey
    /\ stripeKey = NoKey
    /\ calls = << >>
    /\ batch = IdleBatch
    /\ cmd = IdleCmd
    /\ inv = NoProcess

NextCli ==
    \/ inv.pc = "done" /\ \E c \in Commands, e \in EnvFlagInputs, f \in FormatFlagInputs :
          \E a \in IF c[2] \in TakesEnvironment THEN EnvArgInputs
                   ELSE IF c[1] = "coupon" /\ c[2] # "list" THEN {"coup_1"}
                   ELSE IF c = <<"promo", "get">> THEN {"promo_1"}
                   ELSE {""} :
             Execute(c[1], c[2], a, e, f)
    \/ inv.pc = "prerun" /\ \E typed \in TypedInputs : PersistentPreRunE(typed)
    \/ Version
    \/ ConfigShow
    \/ ConfigLoad
    \/ ConfigUse
    \/ \E typed \in TypedInputs : ConfigSetKey(typed)
    \/ \E typed \in TypedInputs : ConfigAddEnv(typed)
    \/ \E confirmed \in BOOLEAN : ConfigRemoveEnv(confirmed)
    \/ \E confirmed \in BOOLEAN : ConfigReset(confirmed)
    \/ \E listed \in ListOutcomes : CouponList(listed)
    \/ \E remoteOk \in BOOLEAN : CouponGet(remoteOk)
    \/ \E confirmed \in BOOLEAN, remoteOk \in BOOLEAN : CouponDelete(confirmed, remoteOk)
    \/ \E listed \in ListOutcomes : PromoList(listed)
    \/ \E remoteOk \in BOOLEAN : PromoGet(remoteOk)
    \/ RunEReturn

SpecCli == InitCli /\ [][NextCli]_vars

----------------------------------------------------------------------------
(* config show on files with keys of every shape *)

\* the keys config show is run on: none, keys of at most 10 characters, keys
\* of 11 that differ in the middle only, keys the validator accepts, and
\* keys made of or around four asterisks
ShowKeys ==
    {NoKey, PadKey(<<"s", "k", "_">>, 10), Stars,
     <<"s", "k", "_", "a", "a", "a", "a", "w", "x", "y", "z">>,
     <<"s", "k", "_", "b", "b", "b", "b", "w", "x", "y", "z">>,
     <<"s", "k", "_">> \o Stars \o <<"w", "x", "y", "z">>,
     SkKey, RkKey}

InitShow ==
    /\ cfg = NilConfig
    /\ \E k1 \in ShowKeys, k2 \in ShowKeys :
          file = JsonFile("prod", TRUE,
                          [n \in {"test", "prod"} |->
                              IF n = "test" THEN Environment(k1, "usd", "table")
                              ELSE Environment(k2, "eur", "json")],
                          ConfigFileMode)
    /\ ret = Return("", "", << >>, NoError)
    /\ sc = NoKey
    /\ stripeKey = NoKey
    /\ calls = << >>
    /\ batch = IdleBatch
    /\ cmd = IdleCmd
    /\ inv = NoProcess

NextShow ==
    \/ inv.pc = "done" /\ \E f \in FormatFlagInputs : Execute("config", "show", "", "", f)
    \/ inv.pc = "prerun" /\ \E typed \in TypedInputs : PersistentPreRunE(typed)
    \/ ConfigShow

SpecShow == InitShow /\ [][NextShow]_vars

----------------------------------------------------------------------------
(* The configuration store started without a config file: the first Load
   creates the default config *)

InitDefault ==
    /\ cfg = NilConfig
    /\ file = AbsentFile
    /\ ret = Return("", "", << >>, NoError)
    /\ sc = NoKey
    /\ stripeKey = NoKey
    /\ calls = << >>
    /\ batch = IdleBatch
    /\ cmd = IdleCmd
    /\ inv = NoInvocations

SpecDefault == InitDefault /\ [][Next]_vars

----------------------------------------------------------------------------
(* The code generator on its own: two iterations of one batch *)

\* the sequence indexes of a batch, up to the limit, with numbers that are
\* the first digits of others
IndexInputs == {1, 2, 10, 11, 100, 111, 999, BatchLimit}
\* values rng.Intn(100000) may yield
SuffixValues == {0, 7, 10007, 99999}
\* prefixes: none, lower case, and one that ends with a digit
CodePrefixInputs == {<< >>, <<"b", "e", "a", "r">>, <<"v", "1">>}

\* the codes of iterations i and j of a batch with the prefix, rng yielding
\* si and sj
GenerateCodes(prefix, i, j, si, sj) ==
    /\ ret.op = ""
    /\ ret' = Return("generatePromotionCode",
                     [prefix |-> prefix, i |-> i, j |-> j, si |-> si, sj |-> sj],
                     <<generatePromotionCode(prefix, i, si),
                       generatePromotionCode(prefix, j, sj)>>,
                     NoError)
    /\ UNCHANGED <<cfg, file, sc, stripeKey, calls, batch, cmd, inv>>

NextCode ==
    \E prefix \in CodePrefixInputs, i \in IndexInputs, j \in IndexInputs,
       si \in SuffixValues, sj \in SuffixValues :
        GenerateCodes(prefix, i, j, si, sj)

SpecCode == InitStripe /\ [][NextCode]_vars

----------------------------------------------------------------------------
(* Properties of the configuration store *)

NumEnvs(c) == Cardinality(DOMAIN c.envs)

\* C1: once Load has succeeded, and after any further store operation, the
\* Config contains at least one environment.
C1_AtLeastOneEnvironment == cfg.loaded => NumEnvs(cfg) >= 1

\* C2: RemoveEnvironment(name) for a name in the Config succeeds and deletes
\* exactly that environment when the Config holds more than one; when name is
\* the sole environment it fails and leaves the map, the current environment
\* and the file unchanged.
C2_RemoveEnvironment ==
    [][\A name \in Names :
          (/\ ret'.op = "RemoveEnvironment" /\ ret'.arg = name
           /\ cfg.loaded /\ name \in DOMAIN cfg.envs)
          => IF NumEnvs(cfg) > 1
             THEN /\ ret'.err = NoError
                  /\ DOMAIN cfg'.envs = DOMAIN cfg.envs \ {name}
                  /\ \A n \in DOMAIN cfg'.envs : cfg'.envs[n] = cfg.envs[n]
                  /\ file'.envs = cfg'.envs
             ELSE /\ ret'.err # NoError
                  /\ cfg'.envs = cfg.envs
                  /\ cfg'.current = cfg.current
                  /\ file' = file]_vars

\* C2 witness: a removal from a Config of several environments has succeeded
C2_Witness ==
    /\ ret.op = "RemoveEnvironment" /\ ret.err = NoError
    /\ ret.arg \notin DOMAIN cfg.envs
    /\ NumEnvs(cfg) >= 1

\* C15: a successful RemoveEnvironment(name) leaves current_environment
\* naming one of the remaining environments when name was current, and
\* leaves current_environment as it was when name was not current.
C15_CurrentAfterRemove ==
    [][(/\ ret'.op = "RemoveEnvironment" /\ ret'.err = NoError
        /\ cfg.loaded /\ ret'.arg \in DOMAIN cfg.envs
        /\ ret'.arg \notin DOMAIN cfg'.envs)
       => IF cfg.current = ret'.arg
          THEN /\ cfg'.current \in DOMAIN cfg'.envs
               /\ cfg'.current # ret'.arg
               /\ file'.cur = cfg'.current
          ELSE cfg'.current = cfg.current]_vars

\* C15 witness: a removal has left several environments, one of them current
C15_Witness ==
    /\ ret.op = "RemoveEnvironment" /\ ret.err = NoError
    /\ ret.arg \notin DOMAIN cfg.envs
    /\ NumEnvs(cfg) >= 2
    /\ cfg.current \in DOMAIN cfg.envs
    /\ file.cur = cfg.current

----------------------------------------------------------------------------
(* Properties of the API key validator *)

\* the keys the validator is documented to accept
WellFormedKey(k) ==
    /\ Len(k) >= 3
    /\ <<k[1], k[2], k[3]>> \in {<<"s", "k", "_">>, <<"r", "k", "_">>}
    /\ Len(k) >= 20

\* C8 as stated: a key is accepted iff it starts with sk_ or rk_ and has at
\* least 20 characters, and every other string is rejected with the
\* InvalidFormat error.
C8_Original ==
    ret.op = "validateAPIKey" =>
        /\ (ret.err = NoError) <=> WellFormedKey(ret.arg)
        /\ ~WellFormedKey(ret.arg) => ErrorsIs(ret.err, ErrInvalidAPIKey)

\* C8 amended: a key is accepted iff it starts with sk_ or rk_ and has at
\* least 20 characters; every other non-empty string is rejected with the
\* InvalidFormat error, the empty string with an error that is not
\* InvalidFormat; the validator changes no state.
C8_Validator ==
    /\ ret.op = "validateAPIKey" =>
        /\ (ret.err = NoError) <=> WellFormedKey(ret.arg)
        /\ (~WellFormedKey(ret.arg) /\ ret.arg # << >>)
              => ErrorsIs(ret.err, ErrInvalidAPIKey)
        /\ ret.arg = << >>
              => ret.err # NoError /\ ~ErrorsIs(ret.err, ErrInvalidAPIKey)
        /\ cfg = DefaultConfig /\ file = Save(DefaultConfig, AbsentFile)
        /\ sc = NoKey /\ stripeKey = NoKey /\ calls = << >>

\* C8 witness: a 19-character sk_ key has been rejected as InvalidFormat
C8_Witness ==
    /\ ret.op = "validateAPIKey"
    /\ Len(ret.arg) = 19 /\ HasPrefix(ret.arg, <<"s", "k", "_">>)
    /\ ErrorsIs(ret.err, ErrInvalidAPIKey)

----------------------------------------------------------------------------
(* Properties of batch creation *)

\* the batch call or the batch command has passed a count outside 1..1000
CountOutOfRange ==
    batch.pc # "idle" /\ (batch.opts.Count <= 0 \/ batch.opts.Count > 1000)

\* the batch call has passed every check of BatchCreatePromotionCodes
ValidBatch ==
    /\ batch.pc # "idle"
    /\ batch.opts.Count \in 1..1000
    /\ IsInitialized
    /\ batch.opts.CouponID # ""

\* the create requests among the remote calls
CreateCalls == SelectSeq(calls, LAMBDA c : c.api = "promotioncode.New")

\* C3: BatchCreatePromotionCodes with count <= 0 or count > 1000 never
\* enters its loop: it returns a validation error (the count message once
\* the client and coupon ID checks have passed), no codes, and no
\* promotion-code create call is issued.
C3_CountOutOfRange ==
    CountOutOfRange =>
        /\ batch.pc = "done"
        /\ ret.op = "BatchCreatePromotionCodes"
        /\ ret.arg = batch.opts
        /\ ret.err # NoError
        /\ ~ErrorsIs(ret.err, RemoteAPIError)
        /\ (IsInitialized /\ batch.opts.CouponID # "" =>
                ret.err.msg = IF batch.opts.Count <= 0
                              THEN "count must be greater than 0"
                              ELSE "count cannot exceed 1000")
        /\ ret.res = << >>
        /\ batch.codes = << >>
        /\ CreateCalls = << >>

C3_Witness ==
    /\ batch.pc = "done"
    /\ ret.op = "BatchCreatePromotionCodes"
    /\ batch.opts.Count > 1000
    /\ IsInitialized
    /\ batch.opts.CouponID # ""
    /\ ret.err.msg = "count cannot exceed 1000"

\* the sequence index a generated code carries between its prefix and "_"
IndexText(code, prefix) ==
    SubSeq(code, (IF prefix = << >> THEN 5 ELSE Len(prefix)) + 1, Len(code) - 6)

\* the calls whose code was not returned as created, in call order
FailedCalls ==
    SelectSeq(calls, LAMBDA c : \A a \in 1..Len(batch.codes) :
                                    batch.codes[a].Code # c.Code[1])

\* the calls whose code was returned as created, in call order
SucceededCalls ==
    SelectSeq(calls, LAMBDA c : \E a \in 1..Len(batch.codes) :
                                    batch.codes[a].Code = c.Code[1])

C4_Sequential ==
    ValidBatch =>
        /\ batch.i <= batch.opts.Count
        /\ Len(calls) = batch.i
        /\ \A j \in 1..Len(calls) :
              /\ calls[j].api = "promotioncode.New"
              /\ calls[j].Coupon = <<batch.opts.CouponID>>
              /\ IndexText(calls[j].Code[1], batch.opts.Prefix) = Itoa(j)
        /\ Len(batch.codes) + Len(batch.errors) = batch.i
        /\ Len(SucceededCalls) = Len(batch.codes)
        /\ \A a \in 1..Len(batch.codes) :
              batch.codes[a].Code = SucceededCalls[a].Code[1]
        /\ Len(FailedCalls) = Len(batch.errors)
        /\ (batch.pc = "done" =>
              /\ batch.i = batch.opts.Count
              /\ Len(calls) = batch.opts.Count
              /\ ret.op = "BatchCreatePromotionCodes"
              /\ ret.res = batch.codes
              /\ Len(ret.res) + Len(batch.errors) = batch.opts.Count)

C4_OneAtATime ==
    (batch.pc = "loop" /\ batch'.pc = "loop" /\ batch' # batch) =>
        /\ batch'.i = batch.i + 1
        /\ Len(calls') = Len(calls) + 1
        /\ SubSeq(calls', 1, Len(calls)) = calls
        /\ batch'.opts = batch.opts

\* C4: for 1 <= count <= 1000, an initialised client and a non-empty coupon
\* ID, the batch issues one create call per step, the j-th call carrying
\* sequence index j, goes on after a failed call, and terminates having
\* issued exactly count calls, with codes + failures = count and the
\* returned codes in the order their calls succeeded.
C4_BatchLoop ==
    /\ []C4_Sequential
    /\ [][C4_OneAtATime]_vars
    /\ (batch.pc = "loop") ~> (batch.pc = "done")

C4_Witness ==
    /\ ValidBatch
    /\ batch.pc = "done"
    /\ batch.opts.Count >= 3
    /\ Len(batch.codes) >= 2
    /\ Len(batch.errors) >= 1
    /\ \E j \in 1..(Len(calls) - 1) :
          /\ calls[j] \in {FailedCalls[k] : k \in 1..Len(FailedCalls)}
          /\ calls[j + 1] \in {SucceededCalls[k] : k \in 1..Len(SucceededCalls)}

\* C5: a finished batch of n calls of which f failed returns the n-f created
\* codes; with f = 0 the error is nil; with f >= 1 the error's message is
\* the header "created (n-f)/n codes successfully", then the messages of
\* the first min(f,5) failures in the order the failures occurred, then,
\* only when f > 5, one line that counts the remaining f-5 errors.
C5_BatchResult ==
    (ValidBatch /\ batch.pc = "done") =>
        LET n == batch.opts.Count
            f == Len(FailedCalls)
            d == ret.err.detail
        IN /\ Len(calls) = n
           /\ ret.res = batch.codes
           /\ Len(ret.res) = n - f
           /\ (f = 0 => ret.err = NoError)
           /\ (f >= 1 =>
                 /\ ret.err # NoError
                 /\ Len(d) = 1 + (IF f < 5 THEN f ELSE 5) + (IF f > 5 THEN 1 ELSE 0)
                 /\ d[1].kind = "created"
                 /\ d[1].a = n - f
                 /\ d[1].b = n
                 /\ \A k \in 1..(IF f < 5 THEN f ELSE 5) :
                       /\ d[k + 1].kind = "failed to create code"
                       /\ d[k + 1].code = FailedCalls[k].Code[1]
                       /\ d[k + 1].cause = "failed to create promotion code"
                 /\ (f > 5 =>
                       /\ d[Len(d)].kind = "more errors"
                       /\ d[Len(d)].a = f - 5))

C5_Witness ==
    /\ ValidBatch
    /\ batch.pc = "done"
    /\ Len(FailedCalls) > 5
    /\ Len(ret.err.detail) = 7

----------------------------------------------------------------------------
(* Properties of the promo batch command *)

\* C6: the batch command run with a valid count fails only when no code
\* was created: with at least one created code it completes successfully,
\* reports the created codes and warns exactly when a call failed; with
\* no created code it fails.
C6_BatchCommand ==
    (cmd.state \in {"ok", "failed"} /\ batch.pc = "done"
        /\ batch.opts.Count \in 1..1000) =>
        /\ (Len(batch.codes) >= 1 =>
              /\ cmd.state = "ok"
              /\ cmd.created = Len(batch.codes)
              /\ cmd.shown = SubSeq(batch.codes, 1,
                                    IF Len(batch.codes) < 5 THEN Len(batch.codes) ELSE 5)
              /\ cmd.warned = (Len(batch.errors) >= 1))
        /\ (Len(batch.codes) = 0 => cmd.state = "failed")

C6_Witness ==
    /\ cmd.state = "ok"
    /\ cmd.warned
    /\ batch.pc = "done"
    /\ Len(batch.codes) >= 1
    /\ Len(batch.errors) >= 1

----------------------------------------------------------------------------
(* Properties of the results the operations return *)

\* C7: an operation returns a non-nil (non-empty) result together with a
\* non-nil error only if it is BatchCreatePromotionCodes with at least one
\* created code and at least one failed call; a batch whose calls all
\* failed returns no result with its error, and a partly failed batch
\* returns both.
C7_ResultWithError ==
    /\ (ret.err # NoError /\ ret.res # << >>) =>
          /\ ret.op = "BatchCreatePromotionCodes"
          /\ batch.pc = "done"
          /\ Len(batch.codes) >= 1
          /\ Len(batch.errors) >= 1
    /\ (ret.op = "BatchCreatePromotionCodes" /\ Len(batch.codes) = 0
           /\ ret.err # NoError) => ret.res = << >>
    /\ (ret.op = "BatchCreatePromotionCodes" /\ Len(batch.codes) >= 1
           /\ Len(batch.errors) >= 1) => (ret.res # << >> /\ ret.err # NoError)

C7_Witness ==
    /\ ret.op = "BatchCreatePromotionCodes"
    /\ ret.res # << >>
    /\ ret.err # NoError
    /\ Len(batch.codes) >= 1
    /\ Len(batch.errors) >= 1

----------------------------------------------------------------------------
(* Properties of coupon creation *)

\* the coupon create requests among the remote calls
CouponCreateCalls == SelectSeq(calls, LAMBDA c : c.api = "coupon.New")

\* neither or both of percent_off and amount_off, or amount_off without a
\* currency
BadDiscount(opts) ==
    \/ opts.PercentOff = << >> /\ opts.AmountOff = << >>
    \/ opts.PercentOff # << >> /\ opts.AmountOff # << >>
    \/ opts.AmountOff # << >> /\ opts.Currency = ""

\* C9: CreateCoupon called with neither or both of percent_off and
\* amount_off, or with amount_off and an empty currency, returns a
\* validation error, no coupon, and issues no remote create call; every
\* dispatched create request carries exactly one of percent_off and
\* amount_off, and a (non-empty) currency exactly when it carries amount_off.
C9_Discount ==
    /\ (ret.op = "CreateCoupon" /\ BadDiscount(ret.arg)) =>
          /\ ret.err # NoError
          /\ ~ErrorsIs(ret.err, RemoteAPIError)
          /\ (IsInitialized =>
                ret.err.msg \in
                    {"either percent_off or amount_off must be specified",
                     "cannot specify both percent_off and amount_off",
                     "currency is required when amount_off is specified"})
          /\ ret.res = << >>
          /\ calls = << >>
    /\ \A j \in 1..Len(CouponCreateCalls) :
          LET c == CouponCreateCalls[j]
          IN /\ (c.PercentOff # << >>) # (c.AmountOff # << >>)
             /\ (c.Currency # << >>) = (c.AmountOff # << >>)
             /\ (c.Currency # << >> => c.Currency[1] # "")

C9_Witness ==
    /\ ret.op = "CreateCoupon"
    /\ IsInitialized
    /\ ret.arg.PercentOff # << >>
    /\ ret.arg.AmountOff # << >>
    /\ ret.err.msg = "cannot specify both percent_off and amount_off"
    /\ calls = << >>

\* a duration CreateCoupon rejects, the empty duration read as "once"
BadDuration(opts) ==
    LET d == IF opts.Duration = "" THEN "once" ELSE opts.Duration
    IN \/ d \notin {"once", "forever", "repeating"}
       \/ d = "repeating" /\ opts.DurationInMonths = << >>

\* C10: CreateCoupon reads an empty duration as "once"; with a duration
\* outside once, forever, repeating, or with repeating and no
\* duration_in_months, it returns a validation error and issues no remote
\* create call; every dispatched create request has a duration among
\* once, forever, repeating and, when repeating, a duration_in_months.
C10_Duration ==
    /\ (ret.op = "CreateCoupon" /\ BadDuration(ret.arg)) =>
          /\ ret.err # NoError
          /\ ~ErrorsIs(ret.err, RemoteAPIError)
          /\ ret.res = << >>
          /\ calls = << >>
    /\ (ret.op = "CreateCoupon" /\ BadDuration(ret.arg) /\ ~BadDiscount(ret.arg)
           /\ IsInitialized) =>
          ret.err.msg \in {"invalid duration",
                           "duration_in_months is required when duration is repeating"}
    /\ (ret.op = "CreateCoupon" /\ ret.arg.Duration = "") =>
          /\ (IsInitialized /\ ~BadDiscount(ret.arg)) => Len(CouponCreateCalls) = 1
          /\ \A j \in 1..Len(CouponCreateCalls) :
                CouponCreateCalls[j].Duration = <<"once">>
    /\ \A j \in 1..Len(CouponCreateCalls) :
          LET c == CouponCreateCalls[j]
          IN /\ Len(c.Duration) = 1
             /\ c.Duration[1] \in {"once", "forever", "repeating"}
             /\ (c.Duration[1] = "repeating" => c.DurationInMonths # << >>)

C10_Witness ==
    /\ ret.op = "CreateCoupon"
    /\ ret.arg.Duration = ""
    /\ ret.err = NoError
    /\ Len(CouponCreateCalls) = 1
    /\ CouponCreateCalls[1].Duration = <<"once">>

----------------------------------------------------------------------------
(* Properties of promotion code creation *)

\* C11: CreatePromotionCode with an empty coupon ID fails and issues no
\* remote call; otherwise its create request has a restrictions block only
\* if opts carries a restriction, and none when it carries none; in the
\* block first_time_transaction and minimum_amount are the supplied values
\* (absent when not supplied) and minimum_amount_currency is present exactly
\* when a minimum_amount is supplied with a non-empty currency.
C11_Restrictions ==
    ret.op = "CreatePromotionCode" =>
        /\ (ret.arg.CouponID = "" =>
              /\ ret.err # NoError
              /\ ~ErrorsIs(ret.err, RemoteAPIError)
              /\ (IsInitialized => ret.err.msg = "coupon ID is required")
              /\ ret.res = << >>
              /\ calls = << >>)
        /\ ((IsInitialized /\ ret.arg.CouponID # "") => Len(calls) = 1)
        /\ \A j \in 1..Len(calls) :
              LET o == ret.arg
                  r == calls[j].Restrictions
                  supplied == \/ o.Restrictions # << >>
                              \/ o.MinimumAmount # << >>
                              \/ o.FirstTimeTransaction # << >>
              IN /\ calls[j].api = "promotioncode.New"
                 /\ calls[j].Coupon = <<o.CouponID>>
                 /\ (r # << >>) = supplied
                 /\ (r # << >> =>
                       /\ r[1].FirstTimeTransaction = o.FirstTimeTransaction
                       /\ r[1].MinimumAmount = o.MinimumAmount
                       /\ (r[1].MinimumAmountCurrency # << >>) =
                              (o.MinimumAmount # << >> /\ o.Currency # "")
                       /\ (r[1].MinimumAmountCurrency # << >> =>
                              r[1].MinimumAmountCurrency = <<o.Currency>>))

C11_Witness ==
    /\ ret.op = "CreatePromotionCode"
    /\ Len(calls) = 1
    /\ calls[1].Restrictions # << >>
    /\ calls[1].Restrictions[1].MinimumAmount # << >>
    /\ calls[1].Restrictions[1].MinimumAmountCurrency = << >>
    /\ calls[1].Restrictions[1].FirstTimeTransaction = << >>

----------------------------------------------------------------------------
(* Properties of the persistence of the configuration *)

\* the operations of the Manager that change the Config
MutatingOps ==
    {"SetCurrentEnvironment", "AddEnvironment", "RemoveEnvironment",
     "UpdateEnvironmentAPIKey", "Reset"}

\* the document in the file is the Config c
FileHolds(f, c) ==
    /\ f.kind = "json"
    /\ f.hasEnvs
    /\ f.cur = c.current
    /\ f.envs = c.envs

\* C12: when SetCurrentEnvironment, AddEnvironment, RemoveEnvironment,
\* UpdateEnvironmentAPIKey or Reset has returned nil, the config file holds
\* the in-memory Config: the mutation was written before the operation
\* returned.
C12_WrittenOnReturn ==
    (ret.op \in MutatingOps /\ ret.err = NoError) =>
        /\ cfg.loaded
        /\ FileHolds(file, cfg)

C12_Witness ==
    /\ ret.op = "UpdateEnvironmentAPIKey"
    /\ ret.err = NoError
    /\ cfg.envs[ret.arg].StripeAPIKey = RkKey
    /\ file.envs[ret.arg].StripeAPIKey = RkKey
    /\ Cardinality(DOMAIN cfg.envs) >= 2

\* C13: a Load that follows a successful save of the Manager's Config
\* yields the environment map and the current_environment that were saved.
C13_RoundTrip ==
    [][(ret.op \in MutatingOps /\ ret.err = NoError /\ ret'.op = "Load") =>
          /\ ret'.err = NoError
          /\ cfg'.envs = cfg.envs
          /\ cfg'.current = cfg.current]_vars

----------------------------------------------------------------------------
(* Properties of racing invocations *)

RaceFinished == \A p \in Invocations : inv[p].pc \in {"saved", "failed"}

\* the invocation whose Save wrote last
LastWriter == CHOOSE p \in Invocations : \A q \in Invocations : inv[q].savedAt <= inv[p].savedAt

\* C14: when both invocations have finished and at least one has saved, the
\* file holds exactly the in-memory Config of the invocation that saved
\* last: never a mix of the two documents, and nothing of the other
\* invocation's change unless the last writer loaded it.
C14_LastWriterWins ==
    (RaceFinished /\ \E p \in Invocations : inv[p].pc = "saved") =>
        FileHolds(file, inv[LastWriter].cfg)


----------------------------------------------------------------------------
(* Properties of the operations of the configuration store *)

\* C16: Load on a missing file makes the Config the single environment
\* "test" (empty API key, "usd", "table") with current_environment "test"
\* and writes that document to the file; Load on a file that parses takes
\* the environment map and the current_environment from the file (an empty
\* or missing current_environment reads as "test", a missing map as the
\* empty map) and leaves the file as it is.
C16_Load ==
    [][(ret'.op = "Load") =>
          /\ (file.kind = "absent" =>
                /\ ret'.err = NoError
                /\ cfg'.loaded
                /\ cfg'.current = "test"
                /\ DOMAIN cfg'.envs = {"test"}
                /\ cfg'.envs["test"] =
                       [StripeAPIKey |-> << >>, DefaultCurrency |-> "usd",
                        OutputFormat |-> "table"]
                /\ FileHolds(file', cfg'))
          /\ (file.kind = "json" =>
                /\ ret'.err = NoError
                /\ cfg'.loaded
                /\ cfg'.envs = (IF file.hasEnvs THEN file.envs ELSE << >>)
                /\ cfg'.current = (IF file.cur = "" THEN "test" ELSE file.cur)
                /\ file' = file)]_vars

\* C16 witness: Load has returned the default Config and the file holds it
C16_Witness ==
    /\ ret.op = "Load" /\ ret.err = NoError
    /\ cfg.current = "test"
    /\ DOMAIN cfg.envs = {"test"}
    /\ cfg.envs["test"].StripeAPIKey = NoKey
    /\ FileHolds(file, cfg)

\* C17: on a loaded Config, SetCurrentEnvironment(name) returns nil and
\* makes name current exactly when name is a key of the environment map;
\* otherwise it fails with ErrEnvironmentNotFound and leaves the current
\* environment, the map and the file as they were.  GetEnvironment(name)
\* fails, with ErrEnvironmentNotFound, exactly when name is not a key, and
\* returns the environment stored under name otherwise.
C17_NotFound ==
    [][/\ (ret'.op = "SetCurrentEnvironment" /\ cfg.loaded) =>
             IF ret'.arg \in DOMAIN cfg.envs
             THEN /\ ret'.err = NoError
                  /\ cfg'.current = ret'.arg
                  /\ cfg'.envs = cfg.envs
                  /\ FileHolds(file', cfg')
             ELSE /\ ErrorsIs(ret'.err, ErrEnvironmentNotFound)
                  /\ cfg' = cfg
                  /\ file' = file
       /\ (ret'.op = "GetEnvironment" /\ cfg.loaded) =>
             /\ (ret'.err # NoError) = (ret'.arg \notin DOMAIN cfg.envs)
             /\ (ret'.err # NoError =>
                    /\ ErrorsIs(ret'.err, ErrEnvironmentNotFound)
                    /\ ret'.res = << >>)
             /\ (ret'.err = NoError => ret'.res = <<cfg.envs[ret'.arg]>>)
             /\ cfg' = cfg
             /\ file' = file]_vars

\* C17 witness: SetCurrentEnvironment has failed on a name the map lacks
C17_Witness ==
    /\ ret.op = "SetCurrentEnvironment"
    /\ ErrorsIs(ret.err, ErrEnvironmentNotFound)
    /\ cfg.loaded
    /\ NumEnvs(cfg) >= 2
    /\ ret.arg \notin DOMAIN cfg.envs
    /\ cfg.current \in DOMAIN cfg.envs

\* C18: on a loaded Config, AddEnvironment(name, env) fails and leaves the
\* Config and the file as they were when name is empty or env's API key is
\* non-empty and not accepted by the validator; otherwise, an empty API key
\* included, it returns nil, the environment stored under name has env's
\* API key, the other environments are as before and the file holds the
\* Config.
C18_AddEnvironment ==
    [][\A name \in Names, env \in EnvInputs :
          (cfg.loaded /\ AddEnvironment(name, env)) =>
              IF name = "" \/ (env.StripeAPIKey # << >> /\ ~WellFormedKey(env.StripeAPIKey))
              THEN /\ ret'.err # NoError
                   /\ cfg' = cfg
                   /\ file' = file
              ELSE /\ ret'.err = NoError
                   /\ DOMAIN cfg'.envs = DOMAIN cfg.envs \cup {name}
                   /\ cfg'.envs[name].StripeAPIKey = env.StripeAPIKey
                   /\ \A n \in DOMAIN cfg.envs \ {name} : cfg'.envs[n] = cfg.envs[n]
                   /\ cfg'.current = cfg.current
                   /\ FileHolds(file', cfg')]_vars

\* C18 witness: an environment with an empty API key has been added
C18_Witness ==
    /\ ret.op = "AddEnvironment" /\ ret.err = NoError
    /\ ret.arg = "dev"
    /\ cfg.envs["dev"].StripeAPIKey = NoKey
    /\ file.envs["dev"].StripeAPIKey = NoKey

\* C19: every environment of a loaded Config has a non-empty
\* default_currency and a non-empty output_format.
C19_EnvironmentDefaults ==
    cfg.loaded =>
        \A n \in DOMAIN cfg.envs :
            /\ cfg.envs[n].DefaultCurrency # ""
            /\ cfg.envs[n].OutputFormat # ""

----------------------------------------------------------------------------
(* Properties of the client *)

\* the environment Initialize(envName) resolves
TargetOf(c, envName) ==
    IF envName # "" THEN envName ELSE IF c.loaded THEN c.current ELSE "test"

\* C20: Initialize(envName) resolves the environment named envName when
\* envName is non-empty and the current environment otherwise.  When that
\* environment does not exist or has an empty API key it returns an error
\* and leaves the client binding and the global SDK key as they were;
\* otherwise it returns nil, the client is initialised and the client and
\* the global SDK key hold that environment's API key.
C20_Initialize ==
    [][(ret'.op = "Initialize") =>
          LET target == TargetOf(cfg, ret'.arg)
          IN IF /\ cfg.loaded
                /\ target \in DOMAIN cfg.envs
                /\ cfg.envs[target].StripeAPIKey # << >>
             THEN /\ ret'.err = NoError
                  /\ sc' # << >>
                  /\ sc' = cfg.envs[target].StripeAPIKey
                  /\ stripeKey' = cfg.envs[target].StripeAPIKey
             ELSE /\ ret'.err # NoError
                  /\ sc' = sc
                  /\ stripeKey' = stripeKey]_vars

\* C20 witness: Initialize has failed after an earlier one had succeeded,
\* and the client and the global key are those of the earlier one
C20_Witness ==
    /\ ret.op = "Initialize"
    /\ ret.err # NoError
    /\ cfg.loaded
    /\ sc # << >>
    /\ stripeKey = sc

----------------------------------------------------------------------------
(* Properties of the config file's permissions *)

\* C22: after a successful Save - the one that ends each successful mutating
\* operation of the store - the config file has mode 0600, whatever mode the
\* file had before.
C22_OwnerOnly ==
    (ret.err = NoError /\ ret.op \in MutatingOps) =>
        file.mode = ConfigFileMode

----------------------------------------------------------------------------
(* Properties of the command line *)

\* the invocation is a coupon or promo command run with --env naming an
\* environment of the Config c other than its current one
EnvFlagOverrides(i, c) ==
    /\ i.parent \in {"coupon", "promo"}
    /\ i.pc # "done"
    /\ i.envFlag # ""
    /\ i.envFlag \in DOMAIN c.envs
    /\ i.envFlag # c.current

\* C21: when --env names an existing environment other than the current
\* one, the client of a coupon or promo command is bound to the API key of
\* the --env environment, whatever the current environment's key is, and no
\* step of the invocation changes the current environment the file holds.
C21_EnvFlag ==
    [][/\ EnvFlagOverrides(inv', Unmarshal(file)) =>
              Unmarshal(file').current = Unmarshal(file).current
       /\ (EnvFlagOverrides(inv', cfg') /\ inv'.pc = "run") =>
              /\ sc' = cfg'.envs[inv'.envFlag].StripeAPIKey
              /\ sc' # NoKey
              /\ stripeKey' = sc'
              /\ inv'.targetEnv = inv'.envFlag]_vars

\* coupon list --env test, test not being current, has sent its request
\* with the key typed for test, the current environment having another key
C21_Witness ==
    /\ EnvFlagOverrides(inv, cfg)
    /\ inv.envFlag = "test"
    /\ inv.prompted
    /\ ret.op = "ListCoupons"
    /\ calls # << >>
    /\ sc = SkKey
    /\ cfg.envs[cfg.current].StripeAPIKey = RkKey
    /\ file.cur = "prod"

\* the first 3 and the last 4 characters of a key of more than 10
Shown(k) == <<SubSeq(k, 1, 3), SubSeq(k, Len(k) - 3, Len(k))>>

\* out is what config show prints for the Config c
ShowMasks(out, c) ==
    /\ DOMAIN out.envs = DOMAIN c.envs
    /\ \A n \in DOMAIN c.envs :
          LET k == c.envs[n].StripeAPIKey
              shown == out.envs[n].StripeAPIKey
          IN k # NoKey =>
                /\ Len(k) <= 10 => shown = Stars
                /\ Len(k) > 10 => shown = Shown(k)[1] \o Stars \o Shown(k)[2]
    /\ \A n, m \in DOMAIN c.envs :
          LET k1 == c.envs[n].StripeAPIKey
              k2 == c.envs[m].StripeAPIKey
          IN (Len(k1) > 10 /\ Len(k2) > 10 /\ Shown(k1) = Shown(k2)) =>
                out.envs[n].StripeAPIKey = out.envs[m].StripeAPIKey

\* a successful config show step
ShowStep == ret.op = "PersistentPreRunE" /\ ret'.op = "config show" /\ ret'.err = NoError

\* a key that masks to itself
MasksToItself(k) == k = Stars \/ (Len(k) = 11 /\ SubSeq(k, 4, 7) = Stars)

\* C23 as stated: config show, in table and in JSON format, prints no stored
\* non-empty key in full.
C23_Original ==
    [][ShowStep =>
          \A n \in DOMAIN cfg'.envs :
             cfg'.envs[n].StripeAPIKey # NoKey =>
                ret'.res[1].envs[n].StripeAPIKey # cfg'.envs[n].StripeAPIKey]_vars

\* C23: config show, in table and in JSON format, prints for a stored
\* non-empty key "****" when it has at most 10 characters, else its first 3
\* characters, "****" and its last 4, so keys that agree there are printed
\* alike; what is printed differs from the key unless the key is "****" or
\* has 11 characters with "****" in the middle, so it differs for every key
\* the validator accepts; the Config in memory and the file are left as Load
\* left them.
C23_Masked ==
    [][ShowStep =>
          /\ ShowMasks(ret'.res[1], cfg')
          /\ \A n \in DOMAIN cfg'.envs :
                LET k == cfg'.envs[n].StripeAPIKey
                IN /\ (k # NoKey /\ ~MasksToItself(k)) =>
                         ret'.res[1].envs[n].StripeAPIKey # k
                   /\ validateAPIKey(k) = NoError => ~MasksToItself(k)
          /\ cfg' = Unmarshal(file)
          /\ file' = file]_vars

\* config show --format json has printed two keys of 11 characters that
\* differ in the middle only, and a table a key of 10 and a valid one
C23_Witness ==
    /\ ret.op = "config show"
    /\ ret.err = NoError
    /\ \/ /\ inv.formatFlag = "json"
          /\ cfg.envs["test"].StripeAPIKey # cfg.envs["prod"].StripeAPIKey
          /\ Len(cfg.envs["test"].StripeAPIKey) = 11
          /\ ret.res[1].envs["test"].StripeAPIKey = ret.res[1].envs["prod"].StripeAPIKey
          /\ ret.res[1].envs["test"].StripeAPIKey # cfg.envs["test"].StripeAPIKey
       \/ /\ inv.formatFlag = ""
          /\ Len(cfg.envs["test"].StripeAPIKey) = 10
          /\ cfg.envs["prod"].StripeAPIKey = SkKey
          /\ ret.res[1].envs["prod"].StripeAPIKey # SkKey

----------------------------------------------------------------------------
(* Properties of the store started from the default config *)

\* every API key of the environments is empty or well formed
StoredKeysValid(envs) ==
    \A n \in DOMAIN envs :
        envs[n].StripeAPIKey = NoKey \/ WellFormedKey(envs[n].StripeAPIKey)

\* C24: starting from the default config, every API key in the Config and
\* in the file is empty or accepted by the validator after any sequence of
\* operations; UpdateEnvironmentAPIKey fails and changes nothing for an
\* empty or malformed key and for an absent environment, and when it
\* succeeds it changes the named environment's API key only: its currency
\* and format, the other environments and current_environment stay.
C24_StoredKeys ==
    /\ [](StoredKeysValid(cfg.envs) /\ StoredKeysValid(file.envs))
    /\ [][\A name \in Names, key \in KeyInputs :
             UpdateEnvironmentAPIKey(name, key) =>
                IF \/ ~cfg.loaded
                   \/ name \notin DOMAIN cfg.envs
                   \/ key = NoKey
                   \/ ~WellFormedKey(key)
                THEN /\ ret'.err # NoError
                     /\ cfg' = cfg
                     /\ file' = file
                ELSE /\ ret'.err = NoError
                     /\ DOMAIN cfg'.envs = DOMAIN cfg.envs
                     /\ cfg'.envs[name] = [cfg.envs[name] EXCEPT !.StripeAPIKey = key]
                     /\ \A n \in DOMAIN cfg.envs \ {name} : cfg'.envs[n] = cfg.envs[n]
                     /\ cfg'.current = cfg.current
                     /\ FileHolds(file', cfg')]_vars

\* the key of one of three environments has been replaced, the others
\* having a key and none
C24_Witness ==
    /\ ret.op = "UpdateEnvironmentAPIKey"
    /\ ret.err = NoError
    /\ ret.arg = "prod"
    /\ DOMAIN cfg.envs = {"test", "prod", "dev"}
    /\ cfg.envs["prod"] = Environment(RkKey, "eur", "json")
    /\ cfg.envs["dev"].StripeAPIKey = SkKey
    /\ cfg.envs["test"].StripeAPIKey = NoKey
    /\ FileHolds(file, cfg)

\* C26: starting from the default config, after any sequence of successful
\* or failing SetCurrentEnvironment, AddEnvironment, RemoveEnvironment,
\* UpdateEnvironmentAPIKey, Reset and Load, current_environment names an
\* environment of the map, in the Config and in the file.
C26_CurrentExists ==
    /\ cfg.loaded => cfg.current \in DOMAIN cfg.envs
    /\ file.kind = "json" => Unmarshal(file).current \in DOMAIN Unmarshal(file).envs

\* the current environment has been removed and another one is current, in
\* the Config and in the file
C26_Witness ==
    /\ ret.op = "RemoveEnvironment"
    /\ ret.err = NoError
    /\ ret.arg = "test"
    /\ cfg.current = "dev"
    /\ DOMAIN cfg.envs = {"prod", "dev"}
    /\ FileHolds(file, cfg)

\* the steps of PersistentPreRunE, in their order
PreRunSteps == <<"Load", "GetEnvironment", "EnsureAPIKey", "Initialize">>

\* the pre-run of the invocation did all its steps, for the environment of
\* --env or else the current one, which is there and has the client's key
Initialized ==
    /\ inv.trace = PreRunSteps
    /\ cfg.loaded
    /\ inv.targetEnv = (IF inv.envFlag # "" THEN inv.envFlag ELSE cfg.current)
    /\ inv.targetEnv \in DOMAIN cfg.envs
    /\ cfg.envs[inv.targetEnv].StripeAPIKey # NoKey
    /\ sc = cfg.envs[inv.targetEnv].StripeAPIKey

\* C25: in a coupon or promo command a method of the Stripe services is
\* called, and a request is sent, only after the pre-run loaded the config,
\* found the target environment (--env or else current), found or was given
\* its API key and initialised the client for it, in this order; when one
\* of these steps fails the pre-run stops there, the command is not run and
\* no request is sent.
C25_PreRunFirst ==
    /\ (ret.op \in ServiceOps \/ calls # << >>) =>
          /\ inv.parent \in {"coupon", "promo"}
          /\ Initialized
    /\ (inv.parent \in {"coupon", "promo"} /\ inv.pc = "run") => Initialized
    /\ (inv.parent \in {"coupon", "promo"} /\ ret.op = "PersistentPreRunE") =>
          /\ inv.trace # << >>
          /\ inv.trace = SubSeq(PreRunSteps, 1, Len(inv.trace))
          /\ (ret.err # NoError \/ inv.trace # PreRunSteps) =>
                inv.pc = "done" /\ calls = << >> /\ ret.err # NoError

\* promo get has sent its request with the key the user gave for the
\* --env environment
C25_Witness ==
    /\ inv.parent = "promo"
    /\ inv.name = "get"
    /\ inv.envFlag = "test"
    /\ inv.prompted
    /\ ret.op = "GetPromotionCode"
    /\ calls # << >>
    /\ sc = SkKey

\* C27: a config subcommand (show, list-env, use, add-env, remove-env,
\* set-key, reset) starts its own logic without the user having been asked
\* for an API key and without the Stripe client having been initialised, and
\* is not stopped for want of a key.
C27_ConfigNeedsNoKey ==
    (inv.parent = "config" /\ ret.op = "PersistentPreRunE") =>
        /\ ~inv.prompted
        /\ sc = NoKey
        /\ inv.trace = << >>
        /\ inv.pc = "run"

\* the format a list or get command is to use: --format, else the
\* output_format of the environment the command runs against, else "table"
ExpectedFormat ==
    IF inv.formatFlag # "" THEN inv.formatFlag
    ELSE IF cfg.envs[inv.targetEnv].OutputFormat # ""
         THEN cfg.envs[inv.targetEnv].OutputFormat
    ELSE "table"

\* C28: a coupon or promo list or get command that has something to show
\* renders it in the format of --format when given, else in the
\* output_format of the environment it runs against (the --env one when
\* --env is given, else the current one), else as a table.
C28_OutputFormat ==
    (inv.pc = "done" /\ ret.op \in RenderedOps /\ ret.err = NoError /\ ret.res # << >>) =>
        inv.format = ExpectedFormat

----------------------------------------------------------------------------
(* Properties of the batch command's requests *)

\* C29: the create requests of promo batch carry a max_redemptions
\* parameter only when the user gave a limit other than 0: with --count
\* given and --max-redemptions omitted or 0, and with an empty answer at the
\* prompt, no request of the batch has the parameter.
C29_MaxRedemptions ==
    cmd.state # "idle" =>
        \A i \in 1..Len(calls) :
            (calls[i].api = "promotioncode.New" /\ calls[i].MaxRedemptions # << >>) =>
                calls[i].MaxRedemptions[1] # 0

----------------------------------------------------------------------------
(* Properties of the generated codes *)

\* the number a sequence of decimal digits stands for
RECURSIVE Atoi(_)
Atoi(ds) ==
    IF ds = << >> THEN 0
    ELSE 10 * Atoi(SubSeq(ds, 1, Len(ds) - 1))
         + (CHOOSE d \in 0..9 : Digits[d + 1] = ds[Len(ds)])

IsDigits(ds) == \A k \in 1..Len(ds) : \E d \in 0..9 : Digits[d + 1] = ds[k]

\* code is prefix, the decimal index without leading zeros, "_" and 5
\* decimal digits
WellFormedCode(code, prefix, index) ==
    LET middle == SubSeq(code, Len(prefix) + 1, Len(code) - 6)
    IN /\ Len(code) >= Len(prefix) + 7
       /\ SubSeq(code, 1, Len(prefix)) = prefix
       /\ IsDigits(middle)
       /\ middle[1] # "0"
       /\ Atoi(middle) = index
       /\ code[Len(code) - 5] = "_"
       /\ IsDigits(SubSeq(code, Len(code) - 4, Len(code)))

\* C30: the codes generated for two different indexes of one batch differ,
\* whatever the random suffixes are: the i-th code is the upper-cased prefix
\* ("PROMO" when the prefix is empty), the decimal index i, "_" and exactly 5
\* decimal digits.
C30_DistinctCodes ==
    ret.op = "generatePromotionCode" =>
        /\ ret.arg.i # ret.arg.j => ret.res[1] # ret.res[2]
        /\ LET prefix == IF ret.arg.prefix = << >> THEN <<"P", "R", "O", "M", "O">>
                         ELSE IF ret.arg.prefix = <<"b", "e", "a", "r">>
                              THEN <<"B", "E", "A", "R">>
                         ELSE <<"V", "1">>
           IN /\ WellFormedCode(ret.res[1], prefix, ret.arg.i)
              /\ WellFormedCode(ret.res[2], prefix, ret.arg.j)

\* the codes of the indexes 1 and 11 with the suffixes 10007 and 7: the
\* digits before and after "_" taken together are the same
C30_Witness ==
    /\ ret.op = "generatePromotionCode"
    /\ ret.arg.i = 1
    /\ ret.arg.j = 11
    /\ ret.arg.si = 10007
    /\ ret.arg.sj = 7
    /\ ret.res = <<<<"V", "1", "1", "_", "1", "0", "0", "0", "7">>,
                   <<"V", "1", "1", "1", "_", "0", "0", "0", "0", "7">>>>

====
